---------------------------- MODULE Spec2Model ----------------------------
(***************************************************************************)
(* A model of hy-rs: the guest-physical-memory bookkeeping of the backend  *)
(* Vm types (KVM, WHP, HVF, bhyve) and the x86-64 vCPU reset paths.        *)
(*                                                                         *)
(* The host hypervisor is an external collaborator: every host call takes  *)
(* its answer (accepted / rejected) as an input of the operation.          *)
(***************************************************************************)
EXTENDS Integers, Sequences, FiniteSets, TLC

(***************************************************************************)
(* Bounds of the model.                                                    *)
(***************************************************************************)
MaxAddr == 3
MaxSize == 2
MaxByte == 1
MaxCalls == 3
MaxVcpuCalls == 3
MaxList == 3

Addr == 0 .. (MaxAddr - 1)
Sizes == 1 .. MaxSize
Byte == 0 .. MaxByte
Backends == {"kvm", "whp", "hvf", "bhyve"}

\* ProtectionFlags (src/vm.rs): a bit set of READ, WRITE and EXECUTE.
ProtectionFlags == SUBSET {"READ", "WRITE", "EXECUTE"}

\* The protections the calls are made with.
Protections == {{"READ"}, {"READ", "WRITE"}, {"READ", "WRITE", "EXECUTE"}}

\* The data a caller passes to write_physical_memory, and the (zeroed) buffers
\* it passes to read_physical_memory.
Buffers == UNION {[1 .. n -> Byte] : n \in 1 .. MaxSize}
ReadBuffers == {[i \in 1 .. n |-> 0] : n \in 1 .. MaxSize}

Min(a, b) == IF a < b THEN a ELSE b
Max(a, b) == IF a > b THEN a ELSE b

\* A fresh anonymous host mapping of `size` bytes (MmapOptions::new(size).map_mut()).
map_mut(size) == [i \in 1 .. size |-> 0]

VARIABLES
    backend,          \* the platform the crate was built for (lib.rs cfg)
    segments,         \* Vm.segments: base guest address -> Segment
    physical_ranges,  \* Vm.physical_ranges: RangeMap<u64, u64>
    available_slots,  \* Vm.available_slots (KVM)
    peak,             \* the largest number of segments live at the same time
    unmapped,         \* addresses released by unmap and not mapped again since
    calls,            \* number of calls made so far
    last,             \* the last call: its arguments and its result
    vcpu,             \* the virtual CPU: the library's Vcpu and the state the
                      \* host holds for it
    guest,            \* Vcpu::run in progress: whether the guest is entered,
                      \* and the exit the host reported last
    life,             \* what is alive: the number of clones of the facade Vm
                      \* (the holders of its Arc) and the host's VM
    host,             \* the regions the host holds for the VM: on KVM the
                      \* region of each slot, on WHP the range mapped at
                      \* each guest address (not followed on HVF and bhyve)
    page_allocator,   \* Vm.page_allocator: the PageAllocator's physical_ranges,
                      \* segments, page_info_ranges and free list
    pc                \* where each thread that holds a clone of the Vm is in
                      \* the call it is making

mem_vars == <<segments, physical_ranges, available_slots>>

(***************************************************************************)
(* rangemap::RangeMap<u64, u64>, as a set of [start, end) -> value records *)
(***************************************************************************)

\* RangeMap::get_key_value(&key): the ranges that contain `a` (at most one).
Covering(pr, a) == {r \in pr : r.start <= a /\ a < r.end}

\* A lookup that accepts only the first address of a range.
get_key_value_base_only(pr, a) ==
    IF \E r \in pr : r.start = a
    THEN [found |-> TRUE, range |-> CHOOSE r \in pr : r.start = a]
    ELSE [found |-> FALSE, range |-> [start |-> 0, end |-> 0, value |-> 0]]

get_key_value(pr, a) ==
    IF Covering(pr, a) # {}
    THEN [found |-> TRUE, range |-> CHOOSE r \in Covering(pr, a) : TRUE]
    ELSE [found |-> FALSE, range |-> [start |-> 0, end |-> 0, value |-> 0]]

\* What is left of range r once [s, e) is cut out of it.
Cut(r, s, e) ==
    (IF r.start < Min(r.end, s)
     THEN {[start |-> r.start, end |-> Min(r.end, s), value |-> r.value]}
     ELSE {})
    \cup
    (IF Max(r.start, e) < r.end
     THEN {[start |-> Max(r.start, e), end |-> r.end, value |-> r.value]}
     ELSE {})

\* RangeMap::remove(range)
RangeMapRemove(pr, s, e) == UNION {Cut(r, s, e) : r \in pr}

\* RangeMap::insert(range, value): overlapped ranges are replaced, and the new
\* range is coalesced with touching ranges that map to the same value.
RangeMapInsert(pr, s, e, v) ==
    LET cut   == RangeMapRemove(pr, s, e)
        left  == {r \in cut : r.end = s /\ r.value = v}
        right == {r \in cut : r.start = e /\ r.value = v}
        ns    == IF left # {} THEN (CHOOSE r \in left : TRUE).start ELSE s
        ne    == IF right # {} THEN (CHOOSE r \in right : TRUE).end ELSE e
    IN  (cut \ (left \cup right)) \cup {[start |-> ns, end |-> ne, value |-> v]}

\* HashMap::insert / HashMap::remove on Vm.segments
HashMapInsert(m, k, v) == [a \in (DOMAIN m) \cup {k} |-> IF a = k THEN v ELSE m[a]]
HashMapRemove(m, k) == [a \in (DOMAIN m) \ {k} |-> m[a]]

\* Vec::pop / Vec::push on Vm.available_slots
VecPop(v) == IF v = <<>> THEN v ELSE SubSeq(v, 1, Len(v) - 1)
VecPush(v, x) == Append(v, x)

NoRange == [start |-> 0, end |-> 0, value |-> 0]

\* No virtual CPU has been created.
NoVcpu == [created |-> FALSE]

\* The largest number of threads that hold a clone of the Vm.
MaxThreads == 2

Threads == 1 .. MaxThreads

\* The thread is making no call.
Idle == [at |-> "idle"]

\* PageAllocator::new(): no range, no segment, an empty free list.  The n-th
\* Box<[PageInfo]> that add_range allocates is box n, and a PageInfo is the
\* pair of its box and its index in it; page_info_ranges, which maps the host
\* addresses of a box to the guest base of its range and from which nothing
\* is ever removed, is the sequence of the boxes' guest bases and lengths;
\* segments maps the start of a range to its box; the free list is the
\* sequence of the PageInfos linked in it, the front first.  Guest addresses
\* are counted in pages of 4096 bytes.
PageAllocatorNew ==
    [physical_ranges |-> {}, segments |-> <<>>, free_list |-> <<>>,
     page_info_ranges |-> <<>>]

\* No call of Vcpu::run is in progress.
NotRunning == [entered |-> FALSE, exits |-> 0]

\* The record of a call: its operation and arguments (gpa, the caller's buffer
\* buf) and what it returned: ret, the range it resolved gpa to, the byte count
\* n and the caller's buffer afterwards (out).
Call(op, gpa, buf, ret, range, n, out) ==
    [op |-> op, gpa |-> gpa, buf |-> buf, ret |-> ret, range |-> range,
     n |-> n, out |-> out]

Init ==
    /\ backend \in Backends
    /\ segments = <<>>
    /\ physical_ranges = {}
    /\ available_slots = <<>>
    /\ peak = 0
    /\ unmapped = {}
    /\ calls = 0
    /\ last = Call("new", 0, <<>>, "Ok", NoRange, 0, <<>>)
    /\ vcpu = NoVcpu
    /\ guest = NotRunning
    /\ life = [vms |-> 1, host_vm |-> "created"]
    /\ host = <<>>
    /\ page_allocator = PageAllocatorNew
    /\ pc = [t \in Threads |-> Idle]

vars == <<backend, segments, physical_ranges, available_slots, peak, unmapped,
          calls, last, vcpu, guest, life, host, page_allocator, pc>>

\* What every call does besides its handler: it is counted (at most MaxCalls
\* calls are made) and recorded.
Finish(call) ==
    /\ calls < MaxCalls
    /\ calls' = calls + 1
    /\ last' = call
    /\ peak' = Max(peak, Cardinality(DOMAIN segments'))
    /\ UNCHANGED <<backend, vcpu, guest, life>>

\* A call that returns `ret` without touching the Vm.
Return(op, gpa, buf, ret, range) ==
    /\ UNCHANGED <<segments, physical_ranges, available_slots, unmapped, host>>
    /\ Finish(Call(op, gpa, buf, ret, range, 0, buf))

AddrsOf(range) == range.start .. (range.end - 1)

(***************************************************************************)
(* KVM: src/os_impl/linux/vm.rs                                            *)
(***************************************************************************)

\* let slot = match self.available_slots.pop() { Some(slot) => slot,
\*                                               _ => self.segments.len() }
NextSlot(slots, segs) ==
    IF slots # <<>> THEN slots[Len(slots)] ELSE Cardinality(DOMAIN segs)

\* KVM_SET_USER_MEMORY_REGION, accepted by the host: the region becomes the
\* region of its slot, or, with memory_size 0, the slot is emptied.
set_user_memory_region(regions, region) ==
    IF region.memory_size = 0
    THEN HashMapRemove(regions, region.slot)
    ELSE HashMapInsert(regions, region.slot, region)

linux_map(op, guest_address, mapping, protection, accept) ==
    LET flags == IF "WRITE" \notin protection THEN {"KVM_MEM_READONLY"} ELSE {}
        slot == NextSlot(available_slots, segments)
        memory_size == Len(mapping)
        segment == [mapping |-> mapping,
                    region  |-> [slot |-> slot,
                                 guest_phys_addr |-> guest_address,
                                 memory_size |-> memory_size,
                                 flags |-> flags]]
    IN  /\ available_slots' = VecPop(available_slots)
        /\ IF accept
           THEN /\ segments' = HashMapInsert(segments, guest_address, segment)
                /\ physical_ranges' =
                       RangeMapInsert(physical_ranges, guest_address,
                                      guest_address + memory_size, guest_address)
                /\ unmapped' = unmapped \ (guest_address .. (guest_address + memory_size - 1))
                /\ host' = set_user_memory_region(host, segment.region)
                /\ Finish(Call(op, guest_address, <<>>, "Ok", NoRange, 0, <<>>))
           ELSE /\ UNCHANGED <<segments, physical_ranges, unmapped, host>>
                /\ Finish(Call(op, guest_address, <<>>, "HostError", NoRange, 0, <<>>))

linux_map_physical_memory(guest_address, size, protection, accept) ==
    /\ backend = "kvm"
    /\ linux_map("map", guest_address, map_mut(size), protection, accept)

linux_allocate_physical_memory(guest_address, size, protection, mmap_ok, accept) ==
    /\ backend = "kvm"
    /\ IF ~mmap_ok
       THEN Return("allocate", guest_address, <<>>, "MmapError", NoRange)
       ELSE linux_map("allocate", guest_address, map_mut(size), protection, accept)

linux_unmap_physical_memory(guest_address, accept) ==
    /\ backend = "kvm"
    /\ LET kv == get_key_value(physical_ranges, guest_address)
           range == kv.range
       IN  IF ~kv.found
           THEN Return("unmap", guest_address, <<>>, "InvalidGuestAddress", NoRange)
           ELSE IF range.start \notin DOMAIN segments
           THEN Return("unmap", guest_address, <<>>, "InvalidGuestAddress", range)
           ELSE IF ~accept
           THEN Return("unmap", guest_address, <<>>, "HostError", range)
           ELSE /\ segments' = HashMapRemove(segments, range.start)
                /\ physical_ranges' = RangeMapRemove(physical_ranges, range.start, range.end)
                /\ available_slots' =
                       VecPush(available_slots, segments[range.start].region.slot)
                /\ unmapped' = unmapped \cup AddrsOf(range)
                /\ host' = set_user_memory_region(
                               host, [segments[range.start].region
                                          EXCEPT !.memory_size = 0])
                /\ Finish(Call("unmap", guest_address, <<>>, "Ok",
                               range, 0, <<>>))

linux_protect_physical_memory(guest_address, protection, accept) ==
    /\ backend = "kvm"
    /\ LET kv == get_key_value(physical_ranges, guest_address)
           range == kv.range
       IN  IF ~kv.found
           THEN Return("protect", guest_address, <<>>, "InvalidGuestAddress", NoRange)
           ELSE IF range.start \notin DOMAIN segments
           THEN Return("protect", guest_address, <<>>, "InvalidGuestAddress", range)
           ELSE LET segment == segments[range.start]
                    flags == IF "WRITE" \in protection
                             THEN segment.region.flags \ {"KVM_MEM_READONLY"}
                             ELSE segment.region.flags \cup {"KVM_MEM_READONLY"}
                IN  \* the flags are changed in place before the host is asked
                    /\ segments' = [segments EXCEPT ![range.start].region.flags = flags]
                    /\ host' = IF accept
                               THEN set_user_memory_region(
                                        host, [segment.region EXCEPT !.flags = flags])
                               ELSE host
                    /\ UNCHANGED <<physical_ranges, available_slots, unmapped>>
                    /\ Finish(Call("protect", guest_address, <<>>,
                                   IF accept THEN "Ok" ELSE "HostError", range, 0, <<>>))

\* let size = ((range.end - guest_address) as usize).min(bytes.len());
CopySize(range, guest_address, bytes) == Min(range.end - guest_address, Len(bytes))

\* bytes[..size].copy_from_slice(&mapping[offset..offset + size])
CopyOut(bytes, mapping, offset, size) ==
    [i \in 1 .. Len(bytes) |-> IF i <= size THEN mapping[offset + i] ELSE bytes[i]]

\* mapping[offset..offset + size].copy_from_slice(&bytes[..size])
CopyIn(mapping, bytes, offset, size) ==
    [i \in 1 .. Len(mapping) |->
        IF offset < i /\ i <= offset + size THEN bytes[i - offset] ELSE mapping[i]]

\* struct Segment { mapping, region } (KVM) and struct Segment { mapping } (HVF)
SegmentMapping(segment) == segment.mapping
SegmentWithMapping(segment, m) == [segment EXCEPT !.mapping = m]

\* WHP: segments: HashMap<u64, MmapMut>, the segment is the mapping itself
MmapMapping(segment) == segment
MmapWithMapping(segment, m) == m

\* segment.mapping on KVM and HVF, segment on WHP
Mapping(segment) ==
    IF backend = "whp" THEN MmapMapping(segment) ELSE SegmentMapping(segment)

\* the segment with its host mapping replaced by m
WithMapping(segment, m) ==
    IF backend = "whp" THEN MmapWithMapping(segment, m) ELSE SegmentWithMapping(segment, m)

\* read_physical_memory, shared by KVM, WHP and HVF up to how a segment holds
\* its host mapping (Mapping(segment)).
ReadPhysicalMemory(bytes, guest_address) ==
    LET kv == get_key_value(physical_ranges, guest_address)
        range == kv.range
    IN  IF ~kv.found
        THEN Return("read", guest_address, bytes, "InvalidGuestAddress", NoRange)
        ELSE IF range.start \notin DOMAIN segments
        THEN Return("read", guest_address, bytes, "InvalidGuestAddress", range)
        ELSE LET mapping == Mapping(segments[range.start])
                 offset == guest_address - range.start
                 size == CopySize(range, guest_address, bytes)
             IN  IF offset + size > Len(mapping)
                 THEN \* the slice index is out of range: the call panics
                      Return("read", guest_address, bytes, "Panic", range)
                 ELSE /\ UNCHANGED <<segments, physical_ranges, available_slots,
                                     unmapped, host>>
                      /\ Finish(Call("read", guest_address, bytes, "Ok",
                                     range, size, CopyOut(bytes, mapping, offset, size)))

\* write_physical_memory, shared in the same way; WithMapping(segment, m) is
\* the segment with its host mapping replaced by m.
WritePhysicalMemory(guest_address, bytes) ==
    LET kv == get_key_value(physical_ranges, guest_address)
        range == kv.range
    IN  IF ~kv.found
        THEN Return("write", guest_address, bytes, "InvalidGuestAddress", NoRange)
        ELSE IF range.start \notin DOMAIN segments
        THEN Return("write", guest_address, bytes, "InvalidGuestAddress", range)
        ELSE LET segment == segments[range.start]
                 mapping == Mapping(segment)
                 offset == guest_address - range.start
                 size == CopySize(range, guest_address, bytes)
             IN  IF offset + size > Len(mapping)
                 THEN Return("write", guest_address, bytes, "Panic", range)
                 ELSE /\ segments' =
                            [segments EXCEPT ![range.start] =
                                WithMapping(segment, CopyIn(mapping, bytes, offset, size))]
                      /\ UNCHANGED <<physical_ranges, available_slots, unmapped, host>>
                      /\ Finish(Call("write", guest_address, bytes, "Ok",
                                     range, size, bytes))

linux_read_physical_memory(bytes, guest_address) ==
    /\ backend = "kvm"
    /\ ReadPhysicalMemory(bytes, guest_address)

linux_write_physical_memory(guest_address, bytes) ==
    /\ backend = "kvm"
    /\ WritePhysicalMemory(guest_address, bytes)

(***************************************************************************)
(* WHP: src/os_impl/windows/vm.rs.  segments: HashMap<u64, MmapMut>        *)
(***************************************************************************)

\* The WHV_MAP_GPA_RANGE_FLAGS map and protect build from a protection.
WHvMapGpaRangeFlags(protection) ==
    (IF "READ" \in protection THEN {"WHvMapGpaRangeFlagRead"} ELSE {})
    \cup (IF "WRITE" \in protection THEN {"WHvMapGpaRangeFlagWrite"} ELSE {})
    \cup (IF "EXECUTE" \in protection THEN {"WHvMapGpaRangeFlagExecute"} ELSE {})

\* WHvMapGpaRange and WHvUnmapGpaRange, accepted by the host
WHvMapGpaRange(regions, guest_address, size, flags) ==
    HashMapInsert(regions, guest_address, [size |-> size, flags |-> flags])

WHvUnmapGpaRange(regions, guest_address, size) ==
    HashMapRemove(regions, guest_address)

windows_map(op, guest_address, mapping, protection, accept) ==
    LET size == Len(mapping)
    IN  IF accept
        THEN /\ host' = WHvMapGpaRange(host, guest_address, size,
                                       WHvMapGpaRangeFlags(protection))
             /\ segments' = HashMapInsert(segments, guest_address, mapping)
             /\ physical_ranges' =
                    RangeMapInsert(physical_ranges, guest_address,
                                   guest_address + size, guest_address)
             /\ unmapped' = unmapped \ (guest_address .. (guest_address + size - 1))
             /\ UNCHANGED available_slots
             /\ Finish(Call(op, guest_address, <<>>, "Ok",
                            NoRange, 0, <<>>))
        ELSE Return(op, guest_address, <<>>, "HostError", NoRange)

windows_map_physical_memory(guest_address, size, protection, accept) ==
    /\ backend = "whp"
    /\ windows_map("map", guest_address, map_mut(size), protection, accept)

windows_allocate_physical_memory(guest_address, size, protection, mmap_ok, accept) ==
    /\ backend = "whp"
    /\ IF ~mmap_ok
       THEN Return("allocate", guest_address, <<>>, "MmapError", NoRange)
       ELSE windows_map("allocate", guest_address, map_mut(size), protection, accept)

windows_unmap_physical_memory(guest_address, accept) ==
    /\ backend = "whp"
    /\ LET kv == get_key_value(physical_ranges, guest_address)
           range == kv.range
       IN  IF ~kv.found
           THEN Return("unmap", guest_address, <<>>, "InvalidGuestAddress", NoRange)
           ELSE IF range.start \notin DOMAIN segments
           THEN Return("unmap", guest_address, <<>>, "InvalidGuestAddress", range)
           ELSE IF ~accept
           THEN Return("unmap", guest_address, <<>>, "HostError", range)
           ELSE /\ host' = WHvUnmapGpaRange(host, range.start,
                                             Len(segments[range.start]))
                /\ segments' = HashMapRemove(segments, range.start)
                /\ physical_ranges' = RangeMapRemove(physical_ranges, range.start, range.end)
                /\ unmapped' = unmapped \cup AddrsOf(range)
                /\ UNCHANGED available_slots
                /\ Finish(Call("unmap", guest_address, <<>>, "Ok",
                               range, 0, <<>>))

\* protect is WHvUnmapGpaRange (answer: accept) then WHvMapGpaRange (accept2)
windows_protect_physical_memory(guest_address, protection, accept, accept2) ==
    /\ backend = "whp"
    /\ LET kv == get_key_value(physical_ranges, guest_address)
           range == kv.range
       IN  IF ~kv.found
           THEN Return("protect", guest_address, <<>>, "InvalidGuestAddress", NoRange)
           ELSE IF range.start \notin DOMAIN segments
           THEN Return("protect", guest_address, <<>>, "InvalidGuestAddress", range)
           ELSE IF ~accept
           THEN Return("protect", guest_address, <<>>, "HostError", range)
           ELSE LET size == Len(segments[range.start])
                    after_unmap == WHvUnmapGpaRange(host, range.start, size)
                IN  /\ host' = IF accept2
                               THEN WHvMapGpaRange(after_unmap, range.start, size,
                                                   WHvMapGpaRangeFlags(protection))
                               ELSE after_unmap
                    /\ UNCHANGED <<segments, physical_ranges, available_slots, unmapped>>
                    /\ Finish(Call("protect", guest_address, <<>>,
                                   IF accept2 THEN "Ok" ELSE "HostError",
                                   range, 0, <<>>))

windows_read_physical_memory(bytes, guest_address) ==
    /\ backend = "whp"
    /\ ReadPhysicalMemory(bytes, guest_address)

windows_write_physical_memory(guest_address, bytes) ==
    /\ backend = "whp"
    /\ WritePhysicalMemory(guest_address, bytes)

(***************************************************************************)
(* HVF: src/os_impl/macos/vm.rs                                            *)
(***************************************************************************)

macos_map(op, guest_address, mapping, protection, accept) ==
    LET range == [start |-> guest_address, end |-> guest_address + Len(mapping),
                  value |-> guest_address]
        segment == [mapping |-> mapping]
    IN  IF accept
        THEN /\ physical_ranges' =
                    RangeMapInsert(physical_ranges, range.start, range.end, range.start)
             /\ segments' = HashMapInsert(segments, range.start, segment)
             /\ unmapped' = unmapped \ AddrsOf(range)
             /\ UNCHANGED <<available_slots, host>>
             /\ Finish(Call(op, guest_address, <<>>, "Ok",
                            NoRange, 0, <<>>))
        ELSE Return(op, guest_address, <<>>, "HostError", NoRange)

macos_map_physical_memory(guest_address, size, protection, accept) ==
    /\ backend = "hvf"
    /\ macos_map("map", guest_address, map_mut(size), protection, accept)

macos_allocate_physical_memory(guest_address, size, protection, mmap_ok, accept) ==
    /\ backend = "hvf"
    /\ IF ~mmap_ok
       THEN Return("allocate", guest_address, <<>>, "MmapError", NoRange)
       ELSE macos_map("allocate", guest_address, map_mut(size), protection, accept)

\* the segment is not looked up: only the range is
macos_unmap_physical_memory(guest_address, accept) ==
    /\ backend = "hvf"
    /\ LET kv == get_key_value(physical_ranges, guest_address)
           range == kv.range
       IN  IF ~kv.found
           THEN Return("unmap", guest_address, <<>>, "InvalidGuestAddress", NoRange)
           ELSE IF ~accept
           THEN Return("unmap", guest_address, <<>>, "HostError", range)
           ELSE /\ segments' = HashMapRemove(segments, range.start)
                /\ physical_ranges' = RangeMapRemove(physical_ranges, range.start, range.end)
                /\ unmapped' = unmapped \cup AddrsOf(range)
                /\ UNCHANGED <<available_slots, host>>
                /\ Finish(Call("unmap", guest_address, <<>>, "Ok",
                               range, 0, <<>>))

macos_protect_physical_memory(guest_address, protection, accept) ==
    /\ backend = "hvf"
    /\ LET kv == get_key_value(physical_ranges, guest_address)
           range == kv.range
       IN  IF ~kv.found
           THEN Return("protect", guest_address, <<>>, "InvalidGuestAddress", NoRange)
           ELSE IF ~accept
           THEN Return("protect", guest_address, <<>>, "HostError", range)
           ELSE Return("protect", guest_address, <<>>, "Ok", range)

macos_read_physical_memory(bytes, guest_address) ==
    /\ backend = "hvf"
    /\ ReadPhysicalMemory(bytes, guest_address)

macos_write_physical_memory(guest_address, bytes) ==
    /\ backend = "hvf"
    /\ WritePhysicalMemory(guest_address, bytes)

(***************************************************************************)
(* bhyve: src/os_impl/freebsd/vm.rs.  The Vm keeps no table of regions.    *)
(***************************************************************************)

\* vm_map_memory (answer: accept), then the host mapping of the file (mmap_ok)
freebsd_allocate_physical_memory(guest_address, size, protection, mmap_ok, accept) ==
    /\ backend = "bhyve"
    /\ IF ~accept
       THEN Return("allocate", guest_address, <<>>, "HostError", NoRange)
       ELSE IF ~mmap_ok
       THEN Return("allocate", guest_address, <<>>, "MmapError", NoRange)
       ELSE /\ unmapped' = unmapped \ (guest_address .. (guest_address + size - 1))
            /\ UNCHANGED <<segments, physical_ranges, available_slots, host>>
            /\ Finish(Call("allocate", guest_address, <<>>, "Ok",
                           NoRange, 0, <<>>))

freebsd_map_physical_memory(guest_address, size, protection) ==
    /\ backend = "bhyve"
    /\ Return("map", guest_address, <<>>, "Ok", NoRange)

freebsd_unmap_physical_memory(guest_address) ==
    /\ backend = "bhyve"
    /\ unmapped' = unmapped \cup {guest_address}
    /\ UNCHANGED <<segments, physical_ranges, available_slots, host>>
    /\ Finish(Call("unmap", guest_address, <<>>, "Ok", NoRange, 0, <<>>))

freebsd_protect_physical_memory(guest_address, protection) ==
    /\ backend = "bhyve"
    /\ Return("protect", guest_address, <<>>, "Ok", NoRange)

(***************************************************************************)
(* The Vm specification: any sequence of at most MaxCalls calls.           *)
(***************************************************************************)

\* PageAllocator::add_range(start..end): a new box with a PageInfo for every
\* page of the range; the PageInfos are pushed to the front of the free list
\* from index 0 on, so that the last one comes first; the box is entered in
\* page_info_ranges, the range in physical_ranges, and the box in segments,
\* where it replaces (and frees) a box entered for the same start.
add_range(allocator, start, end) ==
    LET box == Len(allocator.page_info_ranges) + 1
        len == end - start
    IN  [physical_ranges |-> RangeMapInsert(allocator.physical_ranges, start, end, start),
         segments |-> HashMapInsert(allocator.segments, start, box),
         free_list |-> [i \in 1 .. len |-> [box |-> box, index |-> len - i]]
                           \o allocator.free_list,
         page_info_ranges |-> Append(allocator.page_info_ranges,
                                     [base |-> start, len |-> len])]

\* self.inner.write().unwrap().allocate_physical_memory(..): the platform's
\* allocate_physical_memory, under the write lock of `inner`
inner_allocate_physical_memory(guest_address, size, protection, mmap_ok, accept) ==
    \/ linux_allocate_physical_memory(guest_address, size, protection, mmap_ok, accept)
    \/ windows_allocate_physical_memory(guest_address, size, protection, mmap_ok, accept)
    \/ macos_allocate_physical_memory(guest_address, size, protection, mmap_ok, accept)
    \/ freebsd_allocate_physical_memory(guest_address, size, protection, mmap_ok, accept)

\* Vm::allocate_physical_memory made by the only thread there is: the
\* platform's call and, if it returned Ok, add_range.
AllocatePhysicalMemory ==
    \E guest_address \in Addr, size \in Sizes, protection \in Protections,
       mmap_ok \in BOOLEAN, accept \in BOOLEAN :
        /\ guest_address + size <= MaxAddr
        /\ inner_allocate_physical_memory(guest_address, size, protection, mmap_ok, accept)
        /\ page_allocator' =
               IF last'.ret = "Ok"
               THEN add_range(page_allocator, guest_address, guest_address + size)
               ELSE page_allocator
        /\ UNCHANGED pc

MapPhysicalMemory ==
    \E guest_address \in Addr, size \in Sizes, protection \in Protections,
       accept \in BOOLEAN :
        /\ guest_address + size <= MaxAddr
        /\ \/ linux_map_physical_memory(guest_address, size, protection, accept)
           \/ windows_map_physical_memory(guest_address, size, protection, accept)
           \/ macos_map_physical_memory(guest_address, size, protection, accept)
           \/ (accept /\ freebsd_map_physical_memory(guest_address, size, protection))
        /\ UNCHANGED <<page_allocator, pc>>

UnmapPhysicalMemory ==
    \E guest_address \in Addr, accept \in BOOLEAN :
        /\ \/ linux_unmap_physical_memory(guest_address, accept)
           \/ windows_unmap_physical_memory(guest_address, accept)
           \/ macos_unmap_physical_memory(guest_address, accept)
           \/ (accept /\ freebsd_unmap_physical_memory(guest_address))
        /\ UNCHANGED <<page_allocator, pc>>

ProtectPhysicalMemory ==
    \E guest_address \in Addr, protection \in Protections,
       accept \in BOOLEAN, accept2 \in BOOLEAN :
        /\ \/ (accept2 /\ linux_protect_physical_memory(guest_address, protection, accept))
           \/ windows_protect_physical_memory(guest_address, protection, accept, accept2)
           \/ (accept2 /\ macos_protect_physical_memory(guest_address, protection, accept))
           \/ (accept /\ accept2 /\ freebsd_protect_physical_memory(guest_address, protection))
        /\ UNCHANGED <<page_allocator, pc>>

ReadPhysicalMemoryCall ==
    \E bytes \in ReadBuffers, guest_address \in Addr :
        /\ \/ linux_read_physical_memory(bytes, guest_address)
           \/ windows_read_physical_memory(bytes, guest_address)
           \/ macos_read_physical_memory(bytes, guest_address)
        /\ UNCHANGED <<page_allocator, pc>>

WritePhysicalMemoryCall ==
    \E guest_address \in Addr, bytes \in Buffers :
        /\ \/ linux_write_physical_memory(guest_address, bytes)
           \/ windows_write_physical_memory(guest_address, bytes)
           \/ macos_write_physical_memory(guest_address, bytes)
        /\ UNCHANGED <<page_allocator, pc>>

Next ==
    \/ AllocatePhysicalMemory
    \/ MapPhysicalMemory
    \/ UnmapPhysicalMemory
    \/ ProtectPhysicalMemory
    \/ ReadPhysicalMemoryCall
    \/ WritePhysicalMemoryCall

Spec == Init /\ [][Next]_vars

(***************************************************************************)
(* Properties of the guest-physical-memory bookkeeping.                    *)
(***************************************************************************)

MemoryOps == {"unmap", "protect", "read", "write"}

\* The host mapping that backs the live segment keyed by `base`.
MappingAt(base) ==
    IF backend = "whp" THEN MmapMapping(segments[base])
    ELSE SegmentMapping(segments[base])

\* The guest-physical range [base, base + size) of the live segment at `base`.
SegmentEnd(base) == base + Len(MappingAt(base))

\* No range of the Vm's table covers gpa.  bhyve's Vm keeps no table: there the
\* case is taken only on a freshly built Vm, on which nothing can be mapped.
NotCovered(gpa) ==
    /\ Covering(physical_ranges, gpa) = {}
    /\ backend = "bhyve" => calls = 0

\* C1: on every backend, unmap / protect / read / write on a guest address
\* that no live mapped range covers returns InvalidGuestAddress and leaves
\* segments, physical_ranges and available_slots as they were.
C1_UncoveredAddressIsInvalid ==
    [][(last'.op \in MemoryOps /\ NotCovered(last'.gpa))
          => (last'.ret = "InvalidGuestAddress" /\ UNCHANGED mem_vars)]_vars

\* C2: the guest-physical ranges of the live segments are pairwise disjoint in
\* every reachable state (a map or allocate that intersects a live segment
\* fails).
C2_SegmentsDisjoint ==
    \A a \in DOMAIN segments : \A b \in DOMAIN segments :
        a # b => (SegmentEnd(a) <= b \/ SegmentEnd(b) <= a)

\* C3: on KVM no two live segments carry the same slot, no live segment's slot
\* is in available_slots, and available_slots holds no slot twice.
C3_SlotsUnique ==
    backend = "kvm" =>
        /\ \A a \in DOMAIN segments : \A b \in DOMAIN segments :
               a # b => segments[a].region.slot # segments[b].region.slot
        /\ \A a \in DOMAIN segments : \A i \in DOMAIN available_slots :
               available_slots[i] # segments[a].region.slot
        /\ \A i \in DOMAIN available_slots : \A j \in DOMAIN available_slots :
               i # j => available_slots[i] # available_slots[j]

\* C4: on KVM a map_physical_memory (or allocate_physical_memory) that fails
\* because the host rejects the region leaves segments, physical_ranges and
\* available_slots exactly as they were before the call.
C4_RejectedMapChangesNothing ==
    [][(backend = "kvm" /\ last'.op \in {"map", "allocate"}
            /\ last'.ret = "HostError")
          => UNCHANGED mem_vars]_vars

\* C5: for a region of `size` bytes mapped at a base, a write at base + k
\* returns n = min(len(data), size - k), places data[0..n) there and leaves the
\* other bytes of the region alone; a read at the same address into a buffer
\* of the same length that follows it returns the same n and the same bytes.
C5_WriteReadRoundTrip ==
    [][/\ last'.op = "write" =>
            \A base \in DOMAIN segments :
                (base <= last'.gpa /\ last'.gpa < SegmentEnd(base)) =>
                    /\ last'.ret = "Ok"
                    /\ last'.n = Min(Len(last'.buf), SegmentEnd(base) - last'.gpa)
                    /\ base \in DOMAIN segments'
                    /\ \A i \in 1 .. Len(MappingAt(base)) :
                           LET k == (base + i - 1) - last'.gpa
                           IN  MappingAt(base)'[i] =
                                   IF 0 <= k /\ k < last'.n
                                   THEN last'.buf[k + 1]
                                   ELSE MappingAt(base)[i]
       /\ (/\ last.op = "write" /\ last.ret = "Ok"
           /\ last'.op = "read" /\ last'.gpa = last.gpa
           /\ Len(last'.buf) = Len(last.buf)) =>
              /\ last'.ret = "Ok"
              /\ last'.n = last.n
              /\ \A i \in 1 .. last.n : last'.out[i] = last.buf[i]]_vars

\* C6: once unmap_physical_memory has succeeded, unmap / protect / read / write
\* on an address it released returns InvalidGuestAddress for as long as no
\* later mapping covers that address.
C6_ReleasedAddressIsInvalid ==
    [][(last'.op \in MemoryOps /\ last'.gpa \in unmapped)
          => last'.ret = "InvalidGuestAddress"]_vars

\* C7, as the code has it: on KVM, WHP and HVF unmap_physical_memory(gpa)
\* resolves gpa to the range of physical_ranges that contains it, whether gpa
\* is the first address of the range or lies inside it.  It returns
\* InvalidGuestAddress, changing nothing, exactly when no range contains gpa
\* or (KVM, WHP) no segment is keyed by the start of that range; otherwise it
\* asks the host and, when the host accepts, removes that range and the
\* segment keyed by its start and nothing else.
C7_UnmapResolvesContainingRange ==
    [][(last'.op = "unmap" /\ backend # "bhyve") =>
          LET cover == {r \in physical_ranges :
                            r.start <= last'.gpa /\ last'.gpa < r.end}
          IN  IF cover = {}
              THEN last'.ret = "InvalidGuestAddress" /\ UNCHANGED mem_vars
              ELSE LET r == CHOOSE r \in cover : TRUE
                   IN  IF backend # "hvf" /\ r.start \notin DOMAIN segments
                       THEN /\ last'.ret = "InvalidGuestAddress"
                            /\ UNCHANGED mem_vars
                       ELSE /\ last'.ret \in {"Ok", "HostError"}
                            /\ last'.ret = "HostError" => UNCHANGED mem_vars
                            /\ last'.ret = "Ok" =>
                                 /\ physical_ranges' = physical_ranges \ {r}
                                 /\ DOMAIN segments' = DOMAIN segments \ {r.start}
                                 /\ \A a \in DOMAIN segments' :
                                        segments'[a] = segments[a]]_vars

\* C7 witness: an unmap of an address strictly inside a range has succeeded.
C7_UnmapInsideSucceeded ==
    /\ last.op = "unmap"
    /\ last.ret = "Ok"
    /\ last.range.start < last.gpa
    /\ last.gpa < last.range.end

\* C7 as stated: an unmap of an address strictly inside a live region fails
\* with InvalidGuestAddress and leaves the region mapped (calls that fail in
\* the host aside).
C7_UnmapInsideFails ==
    [][(/\ last'.op = "unmap"
        /\ last'.ret # "HostError"
        /\ \E base \in DOMAIN segments :
               /\ base < last'.gpa /\ last'.gpa < SegmentEnd(base)
               /\ \E r \in physical_ranges :
                      r.start = base /\ r.end = SegmentEnd(base))
          => (last'.ret = "InvalidGuestAddress" /\ UNCHANGED mem_vars)]_vars

\* C8: on KVM every slot number in use is smaller than the largest number of
\* segments that were ever live at the same time.
C8_SlotsBelowPeak ==
    backend = "kvm" =>
        \A a \in DOMAIN segments : segments[a].region.slot < peak

(***************************************************************************)
(* The x86-64 virtual CPU: src/arch/x86_64.rs, src/vcpu.rs and the         *)
(* backends' vcpu.rs.                                                      *)
(*                                                                         *)
(* A 64-bit base address is held as the pair <<hi, lo>> of its bits 16..31 *)
(* and 0..15 (the bases that occur have no higher bits); every other       *)
(* register value is held as the number it is.                             *)
(***************************************************************************)

U(hi, lo) == <<hi, lo>>

\* addr + offset, as the CPU forms a linear address from a segment base
LinearAddress(base, offset) ==
    U((base[1] + ((base[2] + offset) \div 65536)) % 65536, (base[2] + offset) % 65536)

\* enum SegmentRegister
SegmentRegister == {"Cs", "Ds", "Es", "Fs", "Gs", "Ss", "Tr", "Ldt"}

\* The general-purpose registers the model follows (enum Register).
Register == {"Rip", "Rflags"}

\* pub const CR4_VMXE: u64 = 1 << 13
CR4_VMXE == 8192

\* struct Segment
Segment(base, limit, selector, segment_type, non_system_segment, dpl, present, available, long, default, granularity) ==
    [base |-> base, limit |-> limit, selector |-> selector,
     segment_type |-> segment_type, non_system_segment |-> non_system_segment,
     dpl |-> dpl, present |-> present, available |-> available,
     long |-> long, default |-> default, granularity |-> granularity]

\* #[derive(Default)] for Segment
DefaultSegment ==
    Segment(U(0, 0), 0, 0, 0, FALSE, 0, FALSE, FALSE, FALSE, FALSE, FALSE)

\* `b as u8` / `b as u64` of a bool
AsInt(b) == IF b THEN 1 ELSE 0

\* The access-rights word with AVL put at bit 11 instead of bit 12.
AccessRightsAvlBit11(segment) ==
    (segment.segment_type % 16)
    + AsInt(segment.non_system_segment) * 16
    + (segment.dpl % 4) * 32
    + AsInt(segment.present) * 128
    + AsInt(segment.available) * 2048
    + AsInt(segment.long) * 8192
    + AsInt(segment.default) * 16384
    + AsInt(segment.granularity) * 32768

\* The access-rights word WHP (Attributes), HVF (the VMCS access rights) and
\* bhyve (seg_desc.access) are handed, built from a Segment.
AccessRights(segment) ==
    (segment.segment_type % 16)
    + AsInt(segment.non_system_segment) * 16
    + (segment.dpl % 4) * 32
    + AsInt(segment.present) * 128
    + AsInt(segment.available) * 4096
    + AsInt(segment.long) * 8192
    + AsInt(segment.default) * 16384
    + AsInt(segment.granularity) * 32768

\* The Segment those backends build from what the host holds: a selector, a
\* base, a limit and an access-rights word.
SegmentOf(selector, base, limit, access_rights) ==
    Segment(base, limit, selector % 65536,
            access_rights % 16,
            (access_rights \div 16) % 2 = 1,
            (access_rights \div 32) % 4,
            (access_rights \div 128) % 2 = 1,
            (access_rights \div 4096) % 2 = 1,
            (access_rights \div 8192) % 2 = 1,
            (access_rights \div 16384) % 2 = 1,
            (access_rights \div 32768) % 2 = 1)

\* What the host holds for one segment register on WHP, HVF and bhyve.
Descriptor(selector, base, limit, access) ==
    [selector |-> selector, base |-> base, limit |-> limit, access |-> access]

\* KVM: the fields set_segment_registers assigns in the kvm_segment it got
\* from get_sregs (`unusable` is left as the host gave it) ...
kvm_segment(register, value) ==
    [register EXCEPT
        !.base = value.base, !.limit = value.limit,
        !.selector = value.selector, !.type_ = value.segment_type,
        !.s = AsInt(value.non_system_segment), !.dpl = value.dpl,
        !.present = AsInt(value.present), !.avl = AsInt(value.available),
        !.l = AsInt(value.long), !.db = AsInt(value.default),
        !.g = AsInt(value.granularity)]

\* ... and the Segment get_segment_registers builds from a kvm_segment.
linux_segment(segment) ==
    Segment(segment.base, segment.limit, segment.selector, segment.type_,
            segment.s # 0, segment.dpl, segment.present # 0, segment.avl # 0,
            segment.l # 0, segment.db # 0, segment.g # 0)

(***************************************************************************)
(* The state of a virtual CPU.  vcpu.rip is the rip field of bhyve's Vcpu; *)
(* registers, segments, controls and native_msrs are what the host holds:  *)
(* it keeps what it is handed and hands back what it keeps.                *)
(***************************************************************************)

\* The state the host gives a new virtual CPU is the host's choice: two such
\* states are followed, numbered 0 and 1.
HostPowerOn == {0, 1}

HostRegisters(h) ==
    [r \in Register \cup {"Cr0", "Cr1", "Cr4", "Efer", "Lstar"} |-> h]

HostSegments(h) ==
    [r \in SegmentRegister |->
        IF backend = "kvm"
        THEN [base |-> U(0, 4096 * h), limit |-> 255 * h, selector |-> 8 * h,
              type_ |-> 2 * h, s |-> 0, dpl |-> 0, present |-> h, avl |-> 0,
              l |-> 0, db |-> 0, g |-> 0, unusable |-> 0]
        ELSE Descriptor(8 * h, U(0, 4096 * h), 255 * h, 130 * h)]

NewVcpu(h) ==
    [created |-> TRUE, rip |-> 0,
     registers |-> HostRegisters(h), segments |-> HostSegments(h),
     controls |-> [CpuBased |-> {}, CpuBased2 |-> {}, VmEntryControls |-> {}],
     native_msrs |-> {}]

\* The outcome of a library call on the virtual CPU.
Outcome(v, ret) == [vcpu |-> v, ret |-> ret]

\* A call makes its host calls in order and returns at the first one the host
\* rejects: `ok` is the number of host calls the host accepts.
Result(ok, needed) == IF ok >= needed THEN "Ok" ELSE "HostError"

\* The value of the last of the entries `es` of a list, or `old` if none.
Latest(es, values, old) ==
    IF es = {} THEN old
    ELSE values[CHOOSE e \in es : \A k \in es : k <= e]

\* The entries of `registers` that name r and whose host call number f (of the
\* k host calls made for each entry) is among the first `ok` host calls.
Applied(registers, r, k, f, ok) ==
    {e \in 1 .. Len(registers) : registers[e] = r /\ k * (e - 1) + f <= ok}

\* All the entries of `registers` that name r.
Entries(registers, r) == {e \in 1 .. Len(registers) : registers[e] = r}

(***************************************************************************)
(* set_registers and get_registers                                         *)
(***************************************************************************)

\* KVM: get_regs, the assignments, set_regs
linux_set_registers(v, registers, values, ok) ==
    IF ok < 2 THEN Outcome(v, "HostError")
    ELSE Outcome([v EXCEPT !.registers =
                     [r \in DOMAIN v.registers |->
                         Latest(Entries(registers, r), values,
                                v.registers[r])]], "Ok")

\* WHP: one WHvSetVirtualProcessorRegisters for the whole list
windows_set_registers(v, registers, values, ok) ==
    IF ok < 1 THEN Outcome(v, "HostError")
    ELSE Outcome([v EXCEPT !.registers =
                     [r \in DOMAIN v.registers |->
                         Latest(Entries(registers, r), values,
                                v.registers[r])]], "Ok")

\* HVF: one hv_vcpu_write_register for each entry
macos_set_registers(v, registers, values, ok) ==
    Outcome([v EXCEPT !.registers =
                [r \in DOMAIN v.registers |->
                    Latest(Applied(registers, r, 1, 1, ok), values,
                           v.registers[r])]],
            Result(ok, Len(registers)))

\* bhyve: for each entry, self.rip is assigned (for Rip) and then the host is
\* asked (vm_set_register)
freebsd_set_registers(v, registers, values, ok) ==
    Outcome([v EXCEPT
                !.rip = Latest(Applied(registers, "Rip", 1, 1, ok + 1), values, v.rip),
                !.registers =
                    [r \in DOMAIN v.registers |->
                        Latest(Applied(registers, r, 1, 1, ok), values,
                               v.registers[r])]],
            Result(ok, Len(registers)))

set_registers(v, registers, values, ok) ==
    CASE backend = "kvm"   -> linux_set_registers(v, registers, values, ok)
      [] backend = "whp"   -> windows_set_registers(v, registers, values, ok)
      [] backend = "hvf"   -> macos_set_registers(v, registers, values, ok)
      [] backend = "bhyve" -> freebsd_set_registers(v, registers, values, ok)

\* The number of host calls set_registers makes for a list of n registers.
set_registers_calls(n) ==
    CASE backend = "kvm"   -> 2
      [] backend = "whp"   -> 1
      [] backend = "hvf"   -> n
      [] backend = "bhyve" -> n

\* get_registers, when the host answers every read: all four backends return
\* the registers the host holds, in the order asked.
get_registers(v, registers) ==
    [i \in 1 .. Len(registers) |-> v.registers[registers[i]]]

(***************************************************************************)
(* set_segment_registers and get_segment_registers                         *)
(***************************************************************************)

\* KVM: get_sregs, the assignments, set_sregs
linux_set_segment_registers(v, registers, values, ok) ==
    IF ok < 2 THEN Outcome(v, "HostError")
    ELSE Outcome([v EXCEPT !.segments =
                     [r \in SegmentRegister |->
                         IF Entries(registers, r) = {} THEN v.segments[r]
                         ELSE kvm_segment(v.segments[r],
                                          Latest(Entries(registers, r), values,
                                                 DefaultSegment))]], "Ok")

\* WHP: one WHvSetVirtualProcessorRegisters for the whole list
windows_set_segment_registers(v, registers, values, ok) ==
    IF ok < 1 THEN Outcome(v, "HostError")
    ELSE Outcome([v EXCEPT !.segments =
                     [r \in SegmentRegister |->
                         IF Entries(registers, r) = {} THEN v.segments[r]
                         ELSE LET value == Latest(Entries(registers, r), values,
                                                  DefaultSegment)
                              IN  Descriptor(value.selector, value.base,
                                             value.limit, AccessRights(value))]],
                 "Ok")

\* HVF: four write_vmcs for each entry: selector, base, limit, access rights
macos_set_segment_registers(v, registers, values, ok) ==
    LET selectors == [e \in 1 .. Len(values) |-> values[e].selector]
        bases     == [e \in 1 .. Len(values) |-> values[e].base]
        limits    == [e \in 1 .. Len(values) |-> values[e].limit]
        rights    == [e \in 1 .. Len(values) |-> AccessRights(values[e])]
    IN  Outcome([v EXCEPT !.segments =
                    [r \in SegmentRegister |->
                        Descriptor(
                            Latest(Applied(registers, r, 4, 1, ok), selectors,
                                   v.segments[r].selector),
                            Latest(Applied(registers, r, 4, 2, ok), bases,
                                   v.segments[r].base),
                            Latest(Applied(registers, r, 4, 3, ok), limits,
                                   v.segments[r].limit),
                            Latest(Applied(registers, r, 4, 4, ok), rights,
                                   v.segments[r].access))]],
                Result(ok, 4 * Len(registers)))

\* bhyve: for each entry vm_set_segment_descriptor (base, limit, access) and
\* then vm_set_register (the selector)
freebsd_set_segment_registers(v, registers, values, ok) ==
    LET selectors == [e \in 1 .. Len(values) |-> values[e].selector]
        bases     == [e \in 1 .. Len(values) |-> values[e].base]
        limits    == [e \in 1 .. Len(values) |-> values[e].limit]
        rights    == [e \in 1 .. Len(values) |-> AccessRights(values[e])]
    IN  Outcome([v EXCEPT !.segments =
                    [r \in SegmentRegister |->
                        Descriptor(
                            Latest(Applied(registers, r, 2, 2, ok), selectors,
                                   v.segments[r].selector),
                            Latest(Applied(registers, r, 2, 1, ok), bases,
                                   v.segments[r].base),
                            Latest(Applied(registers, r, 2, 1, ok), limits,
                                   v.segments[r].limit),
                            Latest(Applied(registers, r, 2, 1, ok), rights,
                                   v.segments[r].access))]],
                Result(ok, 2 * Len(registers)))

set_segment_registers(v, registers, values, ok) ==
    CASE backend = "kvm"   -> linux_set_segment_registers(v, registers, values, ok)
      [] backend = "whp"   -> windows_set_segment_registers(v, registers, values, ok)
      [] backend = "hvf"   -> macos_set_segment_registers(v, registers, values, ok)
      [] backend = "bhyve" -> freebsd_set_segment_registers(v, registers, values, ok)

\* The number of host calls set_segment_registers makes for n registers.
set_segment_registers_calls(n) ==
    CASE backend = "kvm"   -> 2
      [] backend = "whp"   -> 1
      [] backend = "hvf"   -> 4 * n
      [] backend = "bhyve" -> 2 * n

\* get_segment_registers, when the host answers every read.
linux_get_segment_registers(v, registers) ==
    [i \in 1 .. Len(registers) |-> linux_segment(v.segments[registers[i]])]

windows_get_segment_registers(v, registers) ==
    [i \in 1 .. Len(registers) |->
        LET segment == v.segments[registers[i]]
        IN  SegmentOf(segment.selector, segment.base, segment.limit,
                      segment.access)]

macos_get_segment_registers(v, registers) ==
    [i \in 1 .. Len(registers) |->
        LET fields == v.segments[registers[i]]
        IN  SegmentOf(fields.selector, fields.base, fields.limit,
                      fields.access)]

\* bhyve fills a list in its loop and returns Ok(vec![])
freebsd_get_segment_registers(v, registers) == <<>>

get_segment_registers(v, registers) ==
    CASE backend = "kvm"   -> linux_get_segment_registers(v, registers)
      [] backend = "whp"   -> windows_get_segment_registers(v, registers)
      [] backend = "hvf"   -> macos_get_segment_registers(v, registers)
      [] backend = "bhyve" -> freebsd_get_segment_registers(v, registers)

(***************************************************************************)
(* Creating and resetting a virtual CPU                                    *)
(***************************************************************************)

\* HVF, Vcpu::reset of src/os_impl/macos/vcpu.rs, when the host accepts every
\* call.  GuestCs is a 16-bit field of the VMCS and is written 0xf0000: the
\* host keeps the value as written or only its low 16 bits (narrow).
macos_reset(v, narrow) ==
    [v EXCEPT
        !.controls =
            [@ EXCEPT !.CpuBased = @ \cup {"HLT", "SECONDARY_CONTROLS"},
                      !.CpuBased2 = @ \cup {"UNRESTRICTED_GUEST"}],
        !.segments =
            [r \in SegmentRegister |->
                CASE r = "Cs" ->
                        Descriptor(IF narrow THEN 983040 % 65536 ELSE 983040,
                                   U(65535, 0), 1048575, 155)
                  [] r \in {"Ds", "Es", "Fs", "Gs", "Ss"} ->
                        Descriptor(0, U(0, 0), 1048575, 147)
                  [] r = "Ldt" -> [v.segments[r] EXCEPT !.access = 65536]
                  [] r = "Tr"  -> [v.segments[r] EXCEPT !.access = 139]],
        !.native_msrs =
            @ \cup {"MSR_IA32_LSTAR", "MSR_IA32_CSTAR", "MSR_IA32_STAR",
                    "MSR_IA32_SYSCALL_MASK", "MSR_IA32_KERNEL_GS_BASE"},
        !.registers =
            [@ EXCEPT !.Rip = 65520, !.Rflags = 2, !.Cr0 = 0,
                      !.Cr4 = CR4_VMXE, !.Efer = 0]]

\* Vm::create_vcpu of each backend.  h is the state the host gives the new
\* virtual CPU; accept: the host accepts every call that create_vcpu makes.
\* On HVF the new Vcpu is reset before it is returned, and is dropped (and
\* destroyed in the host) if its reset fails.
create_vcpu(h, accept, narrow) ==
    IF ~accept THEN Outcome(NoVcpu, "HostError")
    ELSE IF backend = "hvf" THEN Outcome(macos_reset(NewVcpu(h), narrow), "Ok")
    ELSE Outcome(NewVcpu(h), "Ok")

\* The segments Vcpu::reset of src/vcpu.rs loads
code_segment_limit_fffff ==
    Segment(U(65535, 0), 1048575, 61440, 10, TRUE, 0, TRUE, FALSE, FALSE, FALSE, FALSE)

code_segment ==
    Segment(U(65535, 0), 65535, 61440, 10, TRUE, 0, TRUE, FALSE, FALSE, FALSE, FALSE)

data_segment ==
    Segment(U(0, 0), 65535, 0, 3, TRUE, 0, TRUE, FALSE, FALSE, FALSE, FALSE)

\* Vcpu::reset of src/vcpu.rs: set_registers, then set_segment_registers
reset(v, ok) ==
    LET set == set_registers(v, <<"Rip", "Rflags">>, <<65520, 2>>, ok)
    IN  IF set.ret # "Ok" THEN set
        ELSE set_segment_registers(
                 set.vcpu,
                 <<"Cs", "Ss", "Ds", "Es", "Fs", "Gs">>,
                 <<code_segment, data_segment, data_segment, data_segment,
                   data_segment, data_segment>>,
                 ok - set_registers_calls(2))

\* The number of host calls reset makes.
reset_calls == set_registers_calls(2) + set_segment_registers_calls(6)

(***************************************************************************)
(* The virtual CPU specification: a Vcpu is created, and then at most      *)
(* MaxVcpuCalls calls in all are made on it.                               *)
(***************************************************************************)

\* The values the calls are made with.
RegisterValues == {0, 2, 65520}

SegmentValues ==
    {DefaultSegment, code_segment,
     Segment(U(1, 0), 1048575, 8, 11, TRUE, 3, TRUE, TRUE, TRUE, TRUE, TRUE),
     Segment(U(57005, 0), 48879, 4919, 11, TRUE, 3, TRUE, FALSE, TRUE, FALSE, TRUE),
     Segment(U(0, 1), 1, 65535, 4, FALSE, 1, FALSE, TRUE, FALSE, TRUE, FALSE),
     Segment(U(0, 0), 0, 0, 27, FALSE, 5, FALSE, FALSE, FALSE, FALSE, FALSE)}

\* The record of a call on the virtual CPU (a set call also records the
\* values it was given, as `values`).
VcpuCall(op, registers, ret, out) ==
    [op |-> op, registers |-> registers, ret |-> ret, out |-> out]

VcpuFinish(call, v) ==
    /\ calls < MaxVcpuCalls
    /\ calls' = calls + 1
    /\ last' = call
    /\ vcpu' = v
    /\ UNCHANGED <<backend, segments, physical_ranges, available_slots, peak,
                   unmapped, guest, life, host, page_allocator, pc>>

CreateVcpu ==
    \E h \in HostPowerOn, accept \in BOOLEAN, narrow \in BOOLEAN :
        /\ life.vms > 0
        /\ ~vcpu.created
        /\ backend # "hvf" => narrow
        /\ LET made == create_vcpu(h, accept, narrow)
           IN  VcpuFinish(VcpuCall("create_vcpu", <<>>, made.ret, <<>>), made.vcpu)

Reset ==
    \E ok \in 0 .. reset_calls :
        /\ vcpu.created
        /\ LET done == reset(vcpu, ok)
           IN  VcpuFinish(VcpuCall("reset", <<>>, done.ret, <<>>), done.vcpu)

SetRegisters ==
    \E register \in Register, value \in RegisterValues,
       ok \in 0 .. set_registers_calls(1) :
        /\ vcpu.created
        /\ LET done == set_registers(vcpu, <<register>>, <<value>>, ok)
           IN  VcpuFinish([values |-> <<value>>]
                              @@ VcpuCall("set_registers", <<register>>, done.ret, <<>>),
                          done.vcpu)

SetSegmentRegisters ==
    \E register \in SegmentRegister, value \in SegmentValues,
       ok \in 0 .. set_segment_registers_calls(1) :
        /\ vcpu.created
        /\ LET done == set_segment_registers(vcpu, <<register>>, <<value>>, ok)
           IN  VcpuFinish([values |-> <<value>>]
                              @@ VcpuCall("set_segment_registers", <<register>>,
                                          done.ret, <<>>), done.vcpu)

GetRegisters ==
    \E register \in Register, accept \in BOOLEAN :
        /\ vcpu.created
        /\ VcpuFinish(IF accept
                      THEN VcpuCall("get_registers", <<register>>, "Ok",
                                    get_registers(vcpu, <<register>>))
                      ELSE VcpuCall("get_registers", <<register>>, "HostError", <<>>),
                      vcpu)

GetSegmentRegisters ==
    \E register \in SegmentRegister, accept \in BOOLEAN :
        /\ vcpu.created
        /\ VcpuFinish(IF accept
                      THEN VcpuCall("get_segment_registers", <<register>>, "Ok",
                                    get_segment_registers(vcpu, <<register>>))
                      ELSE VcpuCall("get_segment_registers", <<register>>,
                                    "HostError", <<>>),
                      vcpu)

NextVcpu ==
    \/ CreateVcpu
    \/ Reset
    \/ SetRegisters
    \/ SetSegmentRegisters
    \/ GetRegisters
    \/ GetSegmentRegisters

SpecVcpu == Init /\ [][NextVcpu]_vars

(***************************************************************************)
(* Properties of the virtual CPU.                                          *)
(***************************************************************************)

\* C9, as the code has it: once Vcpu::reset() has returned Ok, get_registers
\* gives RIP = 0xFFF0 and RFLAGS = 0x0002 on every backend, and on KVM, WHP
\* and HVF get_segment_registers gives CS with selector 0xF000, base
\* 0xFFFF_0000 and limit 0xFFFF, and DS, ES, FS, GS and SS with base 0 and
\* limit 0xFFFF, so that CS base + RIP = 0xFFFF_FFF0.  On bhyve, whose
\* get_segment_registers returns an empty list, the host holds those values.
C9_ResetState ==
    (last.op = "reset" /\ last.ret = "Ok") =>
        /\ get_registers(vcpu, <<"Rip", "Rflags">>) = <<65520, 2>>
        /\ backend # "bhyve" =>
             LET cs == get_segment_registers(vcpu, <<"Cs">>)
                 data == get_segment_registers(vcpu, <<"Ds", "Es", "Fs", "Gs", "Ss">>)
             IN  /\ Len(cs) = 1
                 /\ cs[1].selector = 61440
                 /\ cs[1].base = U(65535, 0)
                 /\ cs[1].limit = 65535
                 /\ LinearAddress(cs[1].base, vcpu.registers["Rip"]) = U(65535, 65520)
                 /\ Len(data) = 5
                 /\ \A i \in 1 .. 5 : data[i].base = U(0, 0) /\ data[i].limit = 65535
        /\ backend = "bhyve" =>
             /\ vcpu.segments["Cs"].selector = 61440
             /\ vcpu.segments["Cs"].base = U(65535, 0)
             /\ vcpu.segments["Cs"].limit = 65535
             /\ \A r \in {"Ds", "Es", "Fs", "Gs", "Ss"} :
                    vcpu.segments[r].base = U(0, 0) /\ vcpu.segments[r].limit = 65535

\* C9 witness: a reset has returned Ok on a backend whose segments read back,
\* and CS reads back with the selector reset wrote.
C9_ResetDone ==
    /\ last.op = "reset"
    /\ last.ret = "Ok"
    /\ backend # "bhyve"
    /\ get_segment_registers(vcpu, <<"Cs">>)[1].selector = 61440

\* C9 as stated (on the backends whose segments read back): after
\* Vcpu::reset() CS reads back with selector 0xF000, base 0xFFFF_0000 and
\* limit 0xFFFFF, RIP = 0xFFF0, RFLAGS = 0x0002, and DS, ES, FS, GS and SS
\* read back with base 0 and limit 0xFFFFF.
C9_ResetStateLimitFFFFF ==
    (last.op = "reset" /\ last.ret = "Ok" /\ backend # "bhyve") =>
        LET cs == get_segment_registers(vcpu, <<"Cs">>)
            data == get_segment_registers(vcpu, <<"Ds", "Es", "Fs", "Gs", "Ss">>)
        IN  /\ get_registers(vcpu, <<"Rip", "Rflags">>) = <<65520, 2>>
            /\ cs[1].selector = 61440
            /\ cs[1].base = U(65535, 0)
            /\ cs[1].limit = 1048575
            /\ \A i \in 1 .. 5 : data[i].base = U(0, 0) /\ data[i].limit = 1048575

\* C10: on HVF, when Vm::create_vcpu has returned, the virtual CPU holds CS
\* 0xF000 / 0xFFFF_0000 / 0xF_FFFF / 0x9B, DS, ES, FS, GS and SS
\* 0 / 0 / 0xF_FFFF / 0x93, LDTR access rights 0x1_0000, TR access rights
\* 0x8B, RIP 0xFFF0, RFLAGS 2, CR0 0, CR4 = VMXE and EFER 0.
C10_CreateVcpuState ==
    (backend = "hvf" /\ last.op = "create_vcpu" /\ last.ret = "Ok") =>
        /\ vcpu.segments["Cs"] = Descriptor(61440, U(65535, 0), 1048575, 155)
        /\ \A r \in {"Ds", "Es", "Fs", "Gs", "Ss"} :
               vcpu.segments[r] = Descriptor(0, U(0, 0), 1048575, 147)
        /\ vcpu.segments["Ldt"].access = 65536
        /\ vcpu.segments["Tr"].access = 139
        /\ vcpu.registers["Rip"] = 65520
        /\ vcpu.registers["Rflags"] = 2
        /\ vcpu.registers["Cr0"] = 0
        /\ vcpu.registers["Cr4"] = CR4_VMXE
        /\ vcpu.registers["Efer"] = 0

(***************************************************************************)
(* Vcpu::run on HVF: src/os_impl/macos/vcpu.rs                             *)
(***************************************************************************)

\* The largest number of guest exits one call of run is followed through.
MaxExits == 3

\* enum VmxReason (#[repr(u32)], FromPrimitive): the numbers that are members
VmxReason ==
    (0 .. 34) \cup {36, 37, 39, 40, 41} \cup (43 .. 59) \cup {61, 63, 64}

Irq == 1
TripleFault == 2
IrqWnd == 7
Hlt == 12
Io == 30
EptViolation == 48

\* A number that no member of VmxReason has.
NoVmxReason == 35

\* The 64-bit value read from the VMCS field ExitReason: bits 63..32 (upper,
\* zero or not), bit 31 (the VM-entry failure bit) and the basic exit reason.
ExitReasonValues ==
    [upper : {0, 1}, entry_failure : {0, 1},
     basic : {Irq, TripleFault, IrqWnd, Hlt, Io, EptViolation, NoVmxReason}]

\* value as u32: the bits above bit 31 are dropped
AsU32(value) == [entry_failure |-> value.entry_failure, basic |-> value.basic]

\* The u32 taken as it is, bit 31 included.
Unmasked(value32) == value32

\* value32 & 0x7fff_ffff: bit 31 is cleared
And7fffffff(value32) == [value32 EXCEPT !.entry_failure = 0]

\* VmxReason::from_u32: Some(member) for the number of a member, else None
from_u32(value32) ==
    IF value32.entry_failure = 0 /\ value32.basic \in VmxReason
    THEN [some |-> TRUE, reason |-> value32.basic]
    ELSE [some |-> FALSE]

\* enum ExitReason (src/vcpu.rs), the variants run on HVF produces
Unknown == [kind |-> "Unknown"]
Halted == [kind |-> "Halted"]
UnhandledException == [kind |-> "UnhandledException"]
InvalidMemoryAccess(gpa, gva) == [kind |-> "InvalidMemoryAccess", gpa |-> gpa, gva |-> gva]

\* What a call that returned an error carries in place of an ExitReason.
NoExitReason == [kind |-> "None"]

\* The values the host reports in GuestPhysicalAddress and GuestLinearAddress.
GuestAddresses == {0, 4096}

\* A loop that goes round again on every exit the host reports.
macos_run_always_continue(v, value, phys_addr, virt_addr, ok) ==
    IF ok < 2
    THEN [vcpu |-> v, ret |-> "HostError", out |-> NoExitReason]
    ELSE [vcpu |-> v, ret |-> "Continue", out |-> NoExitReason]

\* One turn of the loop of run.  The host calls are, in order, hv_vcpu_run,
\* read_vmcs(ExitReason) and, for Hlt, read_register(RIP) and
\* write_register(RIP), for EptViolation, read_vmcs(GuestPhysicalAddress) and
\* read_vmcs(GuestLinearAddress); `ok` of them are accepted.  ret is "Continue"
\* when the loop goes round again.  (gva is `virt_addr as usize`, the same
\* number on the 64-bit hosts HVF runs on.)
macos_run(v, value, phys_addr, virt_addr, ok) ==
    LET exit_reason == from_u32(And7fffffff(AsU32(value)))
        Ret(w, ret, out) == [vcpu |-> w, ret |-> ret, out |-> out]
    IN  IF ok < 2 THEN Ret(v, "HostError", NoExitReason)
        ELSE IF ~exit_reason.some THEN Ret(v, "Ok", Unknown)
        ELSE IF exit_reason.reason = Irq THEN Ret(v, "Continue", NoExitReason)
        ELSE IF exit_reason.reason = TripleFault THEN Ret(v, "Ok", UnhandledException)
        ELSE IF exit_reason.reason = Hlt
        THEN IF ok < 4 THEN Ret(v, "HostError", NoExitReason)
             ELSE Ret([v EXCEPT !.registers["Rip"] = @ + 1], "Ok", Halted)
        ELSE IF exit_reason.reason = EptViolation
        THEN IF ok < 4 THEN Ret(v, "HostError", NoExitReason)
             ELSE Ret(v, "Ok", InvalidMemoryAccess(phys_addr, virt_addr))
        ELSE Ret(v, "Ok", Unknown)

\* The caller calls run: the loop is entered.
Run ==
    /\ backend = "hvf"
    /\ vcpu.created
    /\ ~guest.entered
    /\ calls < MaxVcpuCalls
    /\ guest' = [entered |-> TRUE, exits |-> 0]
    /\ UNCHANGED <<backend, segments, physical_ranges, available_slots, peak,
                   unmapped, calls, last, vcpu, life, host, page_allocator, pc>>

\* hv_vcpu_run comes back and the rest of the loop body runs: run returns or
\* goes round again.
VmExit ==
    \E value \in ExitReasonValues, phys_addr \in GuestAddresses,
       virt_addr \in GuestAddresses, ok \in 0 .. 4 :
        /\ guest.entered
        /\ guest.exits < MaxExits
        /\ LET done == macos_run(vcpu, value, phys_addr, virt_addr, ok)
               seen == [exits |-> guest.exits + 1, value |-> value,
                        phys_addr |-> phys_addr, virt_addr |-> virt_addr, ok |-> ok]
           IN  IF done.ret = "Continue"
               THEN /\ guest' = [entered |-> TRUE] @@ seen
                    /\ UNCHANGED <<backend, segments, physical_ranges, available_slots,
                                   peak, unmapped, calls, last, vcpu, life, host,
                                   page_allocator, pc>>
               ELSE /\ guest' = [entered |-> FALSE] @@ seen
                    /\ calls' = calls + 1
                    /\ last' = VcpuCall("run", <<>>, done.ret, done.out)
                    /\ vcpu' = done.vcpu
                    /\ UNCHANGED <<backend, segments, physical_ranges, available_slots,
                                   peak, unmapped, life, host, page_allocator, pc>>

NextRun ==
    \/ CreateVcpu
    \/ Run
    \/ VmExit

SpecRun == Init /\ [][NextRun]_vars

(***************************************************************************)
(* Properties of Vcpu::run on HVF.                                         *)
(***************************************************************************)

\* The step is one turn of the loop of run in which the host accepted at least
\* `needed` host calls.
ExitStep(needed) ==
    /\ guest.entered
    /\ guest'.exits = guest.exits + 1
    /\ guest'.ok >= needed

\* With the step, run has returned Ok(exit_reason) to its caller.
RunReturned(exit_reason) ==
    /\ ~guest'.entered
    /\ last'.op = "run"
    /\ last'.ret = "Ok"
    /\ last'.out = exit_reason

\* With the step, run has gone round its loop: nothing is returned and the
\* guest is entered again.
RunResumed ==
    /\ guest'.entered
    /\ last' = last
    /\ calls' = calls
    /\ vcpu' = vcpu

\* C11: run never returns to the caller for an interrupt-window exit (IrqWnd)
\* or a bare external-interrupt exit (Irq): on such an exit the loop re-enters
\* the guest.
C11_BenignExitsAbsorbed ==
    [][(ExitStep(2) /\ guest'.value.basic \in {Irq, IrqWnd}) => RunResumed]_vars

\* C20, as the code has it: with v the raw VMCS exit reason and the host calls
\* of the turn accepted, run classifies v & 0x7FFFFFFF: TripleFault returns
\* UnhandledException; Hlt returns Halted with the guest RIP advanced by
\* exactly 1; EptViolation returns InvalidMemoryAccess with the VMCS
\* GuestPhysicalAddress and GuestLinearAddress; Irq returns nothing and enters
\* the guest again; every other value, the numbers of no VmxReason member
\* included, returns Unknown.  No turn other than one for Hlt changes the
\* virtual CPU.
C20_RunClassifiesExits ==
    [][ExitStep(0) =>
          LET reason == guest'.value.basic
          IN  /\ reason # Hlt => vcpu' = vcpu
              /\ guest'.ok = 4 =>
                   /\ reason = TripleFault => RunReturned(UnhandledException)
                   /\ reason = Hlt =>
                        /\ RunReturned(Halted)
                        /\ vcpu' = [vcpu EXCEPT !.registers["Rip"] = @ + 1]
                   /\ reason = EptViolation =>
                        RunReturned(InvalidMemoryAccess(guest'.phys_addr,
                                                        guest'.virt_addr))
                   /\ reason = Irq => RunResumed
                   /\ reason \notin {TripleFault, Hlt, EptViolation, Irq} =>
                        RunReturned(Unknown)]_vars

\* C20 witness: run has returned Halted for a raw exit reason with bit 31 and
\* upper bits set, and the guest RIP is one past the reset vector.
C20_HaltedPastResetVector ==
    /\ last.op = "run"
    /\ last.ret = "Ok"
    /\ last.out = Halted
    /\ ~guest.entered
    /\ guest.value = [upper |-> 1, entry_failure |-> 1, basic |-> Hlt]
    /\ vcpu.registers["Rip"] = 65521

\* C20 as stated: every value other than TripleFault, Hlt and EptViolation,
\* Irq among them, gives Unknown.
C20_EveryOtherValueUnknown ==
    [][(ExitStep(4) /\ guest'.value.basic \notin {TripleFault, Hlt, EptViolation})
          => RunReturned(Unknown)]_vars

(***************************************************************************)
(* Properties of the segment registers.                                    *)
(***************************************************************************)

\* The last call was set_segment_registers([r], [s]), it returned Ok, and s
\* has segment_type < 16 and dpl < 4.
SegmentWasSet ==
    /\ last.op = "set_segment_registers"
    /\ last.ret = "Ok"
    /\ last.values[1].segment_type < 16
    /\ last.values[1].dpl < 4

SegmentRead(r) ==
    IF backend = "kvm" THEN linux_segment(vcpu.segments[r])
    ELSE SegmentOf(vcpu.segments[r].selector, vcpu.segments[r].base,
                   vcpu.segments[r].limit, vcpu.segments[r].access)

\* C13: on every backend, get_segment_registers(list) that returns Ok returns
\* a vector as long as list whose i-th element is the segment read for list[i].
C13_GetSegmentRegistersFilled ==
    (last.op = "get_segment_registers" /\ last.ret = "Ok") =>
        /\ Len(last.out) = Len(last.registers)
        /\ \A i \in 1 .. Len(last.registers) :
               i <= Len(last.out) /\ last.out[i] = SegmentRead(last.registers[i])

(***************************************************************************)
(* Lifetimes: the facade Vm is Arc<RwLock<platform::Vm>> and derives       *)
(* Clone; the platform Vm is dropped with the last clone.  A Vcpu holds    *)
(* no reference to the Vm, except on WHP where it shares the               *)
(* Arc<PartitionHandle>.                                                   *)
(***************************************************************************)

\* The largest number of clones of the Vm alive at the same time.
MaxVms == 2

\* impl Drop for platform::Vm, and the drop of its fields after it: what
\* becomes of the host's VM.  HVF calls hv_vm_destroy and bhyve vm_destroy,
\* whatever Vcpu is alive, and ignore the result (`accept`: the host did it).
\* On WHP the PartitionHandle is deleted with its last Arc, which a live Vcpu
\* holds too; on KVM the VmFd is closed, and the kernel keeps the VM for as
\* long as a Vcpu's file descriptor is open.
drop_vm(vcpu_alive, accept) ==
    IF backend \in {"hvf", "bhyve"}
    THEN IF accept THEN "destroyed" ELSE "created"
    ELSE IF vcpu_alive THEN "created" ELSE "destroyed"

\* impl Drop for Vcpu (hv_vcpu_destroy, WHvDeleteVirtualProcessor) and the
\* drop of its fields: on WHP and KVM the last holder gone takes the host's
\* VM with it.
drop_vcpu(vms, host_vm) ==
    IF backend \in {"whp", "kvm"} /\ vms = 0 THEN "destroyed" ELSE host_vm

\* #[derive(Clone)] for Vm
CloneVm ==
    /\ life.vms > 0
    /\ life.vms < MaxVms
    /\ life' = [life EXCEPT !.vms = @ + 1]
    /\ UNCHANGED <<backend, segments, physical_ranges, available_slots, peak,
                   unmapped, calls, last, vcpu, guest, host, page_allocator, pc>>

\* A clone of the Vm is dropped; with the last one, the platform Vm and the
\* tables and mappings it owns.
DropVm ==
    \E accept \in BOOLEAN :
        /\ life.vms > 0
        /\ IF life.vms > 1
           THEN /\ life' = [life EXCEPT !.vms = @ - 1]
                /\ UNCHANGED <<segments, physical_ranges, available_slots>>
           ELSE /\ life' = [vms |-> 0, host_vm |-> drop_vm(vcpu.created, accept)]
                /\ segments' = <<>>
                /\ physical_ranges' = {}
                /\ available_slots' = <<>>
        /\ UNCHANGED <<backend, peak, unmapped, calls, last, vcpu, guest, host,
                       page_allocator, pc>>

\* The Vcpu is dropped.
DropVcpu ==
    /\ vcpu.created
    /\ ~guest.entered
    /\ vcpu' = NoVcpu
    /\ life' = [life EXCEPT !.host_vm = drop_vcpu(life.vms, @)]
    /\ UNCHANGED <<backend, segments, physical_ranges, available_slots, peak,
                   unmapped, calls, last, guest, host, page_allocator, pc>>

NextDrop ==
    \/ CloneVm
    \/ DropVm
    \/ CreateVcpu
    \/ DropVcpu

SpecDrop == Init /\ [][NextDrop]_vars

\* C14: the host's VM is destroyed only after every Vcpu created from the Vm
\* has been released: in no state is the host's VM destroyed while a Vcpu of
\* it is alive.
C14_VmOutlivesVcpus ==
    life.host_vm = "destroyed" => ~vcpu.created

(***************************************************************************)
(* Threads: every thread holds its own clone of the Vm and makes calls on  *)
(* it.  A call on `inner` is made under its RwLock and is one step; the    *)
(* lock is given back at the end of the statement that took it.            *)
(***************************************************************************)

\* Vm::allocate_physical_memory made by thread t, up to the `?` after the
\* platform's call: the write lock of `inner` is taken, the platform's Vm is
\* updated, the lock is given back.  If the platform's call returned Ok the
\* thread goes on to add_range, else the call is over.
AllocateInner ==
    \E t \in Threads, guest_address \in Addr, size \in Sizes,
       protection \in Protections, mmap_ok \in BOOLEAN, accept \in BOOLEAN :
        /\ pc[t] = Idle
        /\ guest_address + size <= MaxAddr
        /\ inner_allocate_physical_memory(guest_address, size, protection, mmap_ok, accept)
        /\ pc' = [pc EXCEPT ![t] =
                     IF last'.ret = "Ok"
                     THEN [at |-> "add_range", start |-> guest_address,
                           end |-> guest_address + size]
                     ELSE Idle]
        /\ UNCHANGED page_allocator

\* The rest of Vm::allocate_physical_memory made by thread t: the write lock
\* of `page_allocator` is taken and add_range is called.
AddRange ==
    \E t \in Threads :
        /\ pc[t].at = "add_range"
        /\ page_allocator' = add_range(page_allocator, pc[t].start, pc[t].end)
        /\ pc' = [pc EXCEPT ![t] = Idle]
        /\ UNCHANGED <<backend, segments, physical_ranges, available_slots, peak,
                       unmapped, calls, last, vcpu, guest, life, host>>

\* Vm::unmap_physical_memory made by a thread that is making no other call.
ThreadUnmapPhysicalMemory ==
    /\ \E t \in Threads : pc[t] = Idle
    /\ UnmapPhysicalMemory

NextThreads ==
    \/ AllocateInner
    \/ AddRange
    \/ ThreadUnmapPhysicalMemory

SpecThreads == Init /\ [][NextThreads]_vars

\* C15: allocate_physical_memory takes effect atomically: once a thread's
\* call has updated the platform's region table, the next thing to happen to
\* the Vm is that call's update of the page allocator, so that no other call
\* acts on a state in which only one of the two has been updated.
C15_AllocateAtomic ==
    [][\A t \in Threads : pc[t].at = "add_range" => pc'[t] = Idle]_vars


(***************************************************************************)
(* Control registers.  A control register value is a u64 of which the      *)
(* model follows the low 31 bits: every architected bit of CR4 is below    *)
(* bit 25, and the only operations the library applies to a value are      *)
(* `| CR4_VMXE` and `& !CR4_VMXE`.                                          *)
(***************************************************************************)

\* The control registers the model follows (enum ControlRegister).
ControlRegister == {"Cr0", "Cr1", "Cr4"}

\* value & CR4_VMXE != 0
HasVmxe(value) == (value \div CR4_VMXE) % 2 = 1

\* value | CR4_VMXE
OrVmxe(value) == IF HasVmxe(value) THEN value ELSE value + CR4_VMXE

\* value & !CR4_VMXE
AndNotVmxe(value) == IF HasVmxe(value) THEN value - CR4_VMXE ELSE value

\* An entry handed to the host as given, without the forcing of VMXE.
macos_control_value_as_given(register, value) == value

\* What set_control_registers of HVF hands the host for an entry: CR4 with
\* VMXE forced on, every other register as given.
macos_control_value(register, value) ==
    IF register = "Cr4" THEN OrVmxe(value) ELSE value

\* The entries of a list that the loop of a call does not `continue` past:
\* those whose register is not among `skipped`.
Kept(registers, skipped) ==
    {e \in 1 .. Len(registers) : registers[e] \notin skipped}

\* The entries of `registers` that name r, are kept, and whose host call (one
\* for each kept entry, in order) is among the first `ok` host calls.
KeptApplied(registers, skipped, r, ok) ==
    {e \in Kept(registers, skipped) :
        /\ registers[e] = r
        /\ Cardinality({k \in Kept(registers, skipped) : k <= e}) <= ok}

\* The registers of a list in the order asked, the skipped ones left out.
KeptSeq(registers, skipped) ==
    SelectSeq(registers, LAMBDA r : r \notin skipped)

\* The 0-based positions of the skipped registers of a list, ascending.
RECURSIVE SkippedIndices(_, _, _)
SkippedIndices(registers, skipped, index) ==
    IF index >= Len(registers) THEN <<>>
    ELSE (IF registers[index + 1] \in skipped THEN <<index>> ELSE <<>>)
         \o SkippedIndices(registers, skipped, index + 1)

\* Vec::insert(index, element): panics if index > len
VecInsert(v, index, element) ==
    SubSeq(v, 1, index) \o <<element>> \o SubSeq(v, index + 1, Len(v))

\* for index in indices { values.insert(index, element) }
RECURSIVE InsertAll(_, _, _)
InsertAll(values, indices, element) ==
    IF indices = <<>> THEN values
    ELSE InsertAll(VecInsert(values, Head(indices), element), Tail(indices), element)

\* One of those inserts panics.
RECURSIVE InsertPanics(_, _)
InsertPanics(values, indices) ==
    /\ indices # <<>>
    /\ \/ Head(indices) > Len(values)
       \/ InsertPanics(VecInsert(values, Head(indices), 0), Tail(indices))

\* KVM: get_sregs, the assignments (Cr1 is skipped), set_sregs
linux_set_control_registers(v, registers, values, ok) ==
    IF ok < 2 THEN Outcome(v, "HostError")
    ELSE Outcome([v EXCEPT !.registers =
                     [r \in DOMAIN v.registers |->
                         Latest(Entries(registers, r) \cap Kept(registers, {"Cr1"}),
                                values, v.registers[r])]], "Ok")

\* WHP: one WHvSetVirtualProcessorRegisters for the entries kept (Cr1 is
\* skipped)
windows_set_control_registers(v, registers, values, ok) ==
    IF ok < 1 THEN Outcome(v, "HostError")
    ELSE Outcome([v EXCEPT !.registers =
                     [r \in DOMAIN v.registers |->
                         Latest(Entries(registers, r) \cap Kept(registers, {"Cr1"}),
                                values, v.registers[r])]], "Ok")

\* HVF: one hv_vcpu_write_register for each entry but Cr8, CR4 with VMXE set;
\* Cr1 is written to HV_X86_CR1
macos_set_control_registers(v, registers, values, ok) ==
    Outcome([v EXCEPT !.registers =
                [r \in DOMAIN v.registers |->
                    Latest(KeptApplied(registers, {"Cr8"}, r, ok),
                           [e \in 1 .. Len(registers) |->
                               macos_control_value(registers[e], values[e])],
                           v.registers[r])]],
            Result(ok, Cardinality(Kept(registers, {"Cr8"}))))

\* bhyve: one vm_set_register for each entry but Cr1, Cr2 and Cr8
freebsd_set_control_registers(v, registers, values, ok) ==
    Outcome([v EXCEPT !.registers =
                [r \in DOMAIN v.registers |->
                    Latest(KeptApplied(registers, {"Cr1", "Cr2", "Cr8"}, r, ok),
                           values, v.registers[r])]],
            Result(ok, Cardinality(Kept(registers, {"Cr1", "Cr2", "Cr8"}))))

set_control_registers(v, registers, values, ok) ==
    CASE backend = "kvm"   -> linux_set_control_registers(v, registers, values, ok)
      [] backend = "whp"   -> windows_set_control_registers(v, registers, values, ok)
      [] backend = "hvf"   -> macos_set_control_registers(v, registers, values, ok)
      [] backend = "bhyve" -> freebsd_set_control_registers(v, registers, values, ok)

\* The number of host calls set_control_registers makes for a list.
set_control_registers_calls(registers) ==
    CASE backend = "kvm"   -> 2
      [] backend = "whp"   -> 1
      [] backend = "hvf"   -> Cardinality(Kept(registers, {"Cr8"}))
      [] backend = "bhyve" -> Cardinality(Kept(registers, {"Cr1", "Cr2", "Cr8"}))

\* get_control_registers when the host answers every read.
\* KVM: get_sregs, then the list is mapped, Cr1 to 0
linux_get_control_registers(v, registers) ==
    [i \in 1 .. Len(registers) |->
        IF registers[i] = "Cr1" THEN 0 ELSE v.registers[registers[i]]]

\* WHP: the registers kept are read in one call, then a 0 is inserted at the
\* index of every entry that was skipped
windows_get_control_registers(v, registers) ==
    LET regs == KeptSeq(registers, {"Cr1"})
        indices == SkippedIndices(registers, {"Cr1"}, 0)
        values == [i \in 1 .. Len(regs) |-> v.registers[regs[i]]]
    IN  InsertAll(values, indices, 0)

\* HVF: each entry is read from the host (Cr1 from HV_X86_CR1), CR4 with VMXE
\* masked off
macos_get_control_registers(v, registers) ==
    [i \in 1 .. Len(registers) |->
        IF registers[i] = "Cr8" THEN 0
        ELSE IF registers[i] = "Cr4" THEN AndNotVmxe(v.registers[registers[i]])
        ELSE v.registers[registers[i]]]

\* bhyve: Cr1, Cr2 and Cr8 read 0
freebsd_get_control_registers(v, registers) ==
    [i \in 1 .. Len(registers) |->
        IF registers[i] \in {"Cr1", "Cr2", "Cr8"} THEN 0
        ELSE v.registers[registers[i]]]

get_control_registers(v, registers) ==
    CASE backend = "kvm"   -> linux_get_control_registers(v, registers)
      [] backend = "whp"   -> windows_get_control_registers(v, registers)
      [] backend = "hvf"   -> macos_get_control_registers(v, registers)
      [] backend = "bhyve" -> freebsd_get_control_registers(v, registers)

\* The values set_control_registers is called with: 0, PAE, VMXE, and
\* PAE | OSFXSR | VMXE.
ControlValues == {0, 32, CR4_VMXE, 8736}

SetControlRegisters ==
    \E register \in ControlRegister, value \in ControlValues :
      \E ok \in 0 .. set_control_registers_calls(<<register>>) :
        /\ vcpu.created
        /\ LET done == set_control_registers(vcpu, <<register>>, <<value>>, ok)
           IN  VcpuFinish([values |-> <<value>>]
                              @@ VcpuCall("set_control_registers", <<register>>,
                                          done.ret, <<>>), done.vcpu)

\* The lists get_control_registers and get_msrs are called with: every list
\* of at most MaxList entries, repeated entries included.
Lists(S) == UNION {[1 .. n -> S] : n \in 1 .. MaxList}

GetControlRegisters ==
    \E registers \in Lists(ControlRegister), accept \in BOOLEAN :
        /\ vcpu.created
        /\ VcpuFinish(IF accept
                      THEN VcpuCall("get_control_registers", registers, "Ok",
                                    get_control_registers(vcpu, registers))
                      ELSE VcpuCall("get_control_registers", registers,
                                    "HostError", <<>>),
                      vcpu)

\* A Vcpu is created, and control registers and registers are set and read.
NextControl ==
    \/ CreateVcpu
    \/ SetRegisters
    \/ SetControlRegisters
    \/ GetControlRegisters

SpecControl == Init /\ [][NextControl]_vars

\* The last call was a set_control_registers of CR4 that returned Ok.
Cr4WasSet ==
    /\ last.op = "set_control_registers"
    /\ last.registers = <<"Cr4">>
    /\ last.ret = "Ok"

\* C16: on HVF, from the creation of the virtual CPU on and whatever
\* set_control_registers calls are made, the CR4 the host holds has VMXE
\* (bit 13) set and get_control_registers reads CR4 with VMXE clear; a CR4
\* that was written reads back as written in every bit but VMXE, and what
\* CR4 reads back as changes only in a set_control_registers of CR4 that
\* returns Ok.
C16_Cr4VmxeHidden ==
    /\ [](backend = "hvf" /\ vcpu.created =>
            /\ HasVmxe(vcpu.registers["Cr4"])
            /\ ~HasVmxe(get_control_registers(vcpu, <<"Cr4">>)[1])
            /\ Cr4WasSet =>
                 get_control_registers(vcpu, <<"Cr4">>)[1]
                     = AndNotVmxe(last.values[1]))
    /\ [][backend = "hvf" /\ vcpu.created /\ ~Cr4WasSet' =>
            get_control_registers(vcpu', <<"Cr4">>)
                = get_control_registers(vcpu, <<"Cr4">>)]_vars

\* C16 witness: on HVF, CR4 was written with PAE | OSFXSR | VMXE and then
\* read: the read returned PAE | OSFXSR and the host holds the three bits.
C16_Cr4WrittenAndRead ==
    /\ backend = "hvf"
    /\ last.op = "get_control_registers"
    /\ last.registers = <<"Cr4">>
    /\ last.ret = "Ok"
    /\ last.out = <<544>>
    /\ vcpu.registers["Cr4"] = 8736


(***************************************************************************)
(* Properties of the bookkeeping against the host.                         *)
(***************************************************************************)

\* C17: in every reachable state of a KVM, WHP or HVF Vm, the keys of
\* `segments` are exactly the start addresses of the ranges of
\* `physical_ranges`, and each range is as long as the host mapping of its
\* segment.
C17_RangesMatchSegments ==
    backend # "bhyve" =>
        /\ DOMAIN segments = {r.start : r \in physical_ranges}
        /\ \A r \in physical_ranges :
               r.start \in DOMAIN segments =>
                   r.end - r.start = Len(Mapping(segments[r.start]))


\* C18: on KVM, after any sequence of map / protect / unmap calls, rejected
\* ones included, the region recorded for every live segment (slot, guest
\* address, size, flags) is the region the host last accepted for its slot;
\* so the recorded KVM_MEM_READONLY flag is set exactly when the protection
\* the host last accepted for the region lacks WRITE.
C18_RecordedRegionIsHostRegion ==
    backend = "kvm" =>
        \A base \in DOMAIN segments :
            LET region == segments[base].region
            IN  /\ region.slot \in DOMAIN host
                /\ host[region.slot] = region

\* C19: on WHP, a protect_physical_memory that returns an error leaves the
\* region mapped in the partition with the protection it had, and leaves
\* segments and physical_ranges as they were: no region is recorded in
\* segments / physical_ranges and absent from the partition.
C19_FailedProtectKeepsRegion ==
    [][(backend = "whp" /\ last'.op = "protect" /\ last'.ret # "Ok") =>
           /\ host' = host
           /\ UNCHANGED <<segments, physical_ranges>>
           /\ last'.range.start \in DOMAIN segments' =>
                  last'.range.start \in DOMAIN host']_vars


\* C22: on every backend Cr1 is accepted and always reads 0:
\* get_control_registers([Cr1]) gives 0 whatever set_control_registers calls
\* were made, and a set_control_registers of Cr1 changes nothing of the
\* virtual CPU.
C22_Cr1ReadsZero ==
    /\ [](vcpu.created => get_control_registers(vcpu, <<"Cr1">>) = <<0>>)
    /\ [][(last'.op = "set_control_registers" /\ last'.registers = <<"Cr1">>)
              => vcpu' = vcpu]_vars


(***************************************************************************)
(* Model-specific registers.  The host holds EFER (registers["Efer"]) and  *)
(* LSTAR (registers["Lstar"]); MSR_FFFF_FFFF stands for an identifier that *)
(* no host and no backend knows.  Values are followed in their low bits.   *)
(***************************************************************************)

\* The identifiers get_msrs and set_msrs are called with.
Msr == {"MSR_IA32_EFER", "MSR_IA32_LSTAR", "MSR_FFFF_FFFF"}

\* The register of the host that holds a model-specific register.
HostRegister(register) ==
    IF register = "MSR_IA32_EFER" THEN "Efer" ELSE "Lstar"

\* pub const EFER_LME: u64 = 1 << 8 and EFER_LMA: u64 = 1 << 10
EFER_LME == 256
EFER_LMA == 1024

\* value & EFER_LME == EFER_LME, and value & EFER_LMA == EFER_LMA
HasLme(value) == (value \div EFER_LME) % 2 = 1
HasLma(value) == (value \div EFER_LMA) % 2 = 1

\* value | EFER_LMA
OrLma(value) == IF HasLma(value) THEN value ELSE value + EFER_LMA

\* KVM get_msrs when the host accepts its calls.  The entries that are not
\* EFER are handed to KVM_GET_MSRS with data 0; the host fills them in order
\* up to the first identifier it does not know and returns how many it
\* filled, which get_msrs does not look at.  EFER is then read with get_sregs
\* and inserted at the index of every EFER entry.
linux_get_msrs(v, registers) ==
    LET entries == KeptSeq(registers, {"MSR_IA32_EFER"})
        indices == SkippedIndices(registers, {"MSR_IA32_EFER"}, 0)
        filled == {i \in 1 .. Len(entries) :
                      \A k \in 1 .. i : entries[k] # "MSR_FFFF_FFFF"}
        values == [i \in 1 .. Len(entries) |->
                      IF i \in filled THEN v.registers[HostRegister(entries[i])]
                      ELSE 0]
    IN  InsertAll(values, indices, v.registers["Efer"])

\* WHP get_msrs: the identifiers WHP has a register name for are read in one
\* call, then a 0 is inserted at the index of every other entry
windows_get_msrs(v, registers) ==
    LET regs == KeptSeq(registers, {"MSR_FFFF_FFFF"})
        indices == SkippedIndices(registers, {"MSR_FFFF_FFFF"}, 0)
        values == [i \in 1 .. Len(regs) |-> v.registers[HostRegister(regs[i])]]
    IN  InsertAll(values, indices, 0)

\* HVF get_msrs: EFER is read from the VMCS, every other entry with
\* hv_vcpu_read_msr
macos_get_msrs(v, registers) ==
    [i \in 1 .. Len(registers) |-> v.registers[HostRegister(registers[i])]]

\* bhyve get_msrs: EFER is read from the host, every other entry is 0
freebsd_get_msrs(v, registers) ==
    [i \in 1 .. Len(registers) |->
        IF registers[i] = "MSR_IA32_EFER" THEN v.registers["Efer"] ELSE 0]

get_msrs(v, registers) ==
    CASE backend = "kvm"   -> linux_get_msrs(v, registers)
      [] backend = "whp"   -> windows_get_msrs(v, registers)
      [] backend = "hvf"   -> macos_get_msrs(v, registers)
      [] backend = "bhyve" -> freebsd_get_msrs(v, registers)

\* The host rejects a read of an identifier it does not know: on HVF
\* hv_vcpu_read_msr is called for every entry that is not EFER.
HostRejectsRead(registers) ==
    /\ backend = "hvf"
    /\ \E i \in 1 .. Len(registers) : registers[i] = "MSR_FFFF_FFFF"

GetMsrs ==
    \E registers \in Lists(Msr), accept \in BOOLEAN :
        /\ vcpu.created
        /\ HostRejectsRead(registers) => ~accept
        /\ VcpuFinish(IF accept
                      THEN VcpuCall("get_msrs", registers, "Ok",
                                    get_msrs(vcpu, registers))
                      ELSE VcpuCall("get_msrs", registers, "HostError", <<>>),
                      vcpu)

\* KVM set_msrs: the entries that are not EFER go to KVM_SET_MSRS (which
\* writes them in order up to the first identifier the host does not know),
\* then the last EFER value given is written with get_sregs and set_sregs.
linux_set_msrs(v, registers, values, ok) ==
    LET others == Kept(registers, {"MSR_IA32_EFER"})
        efers == Entries(registers, "MSR_IA32_EFER")
        written == {e \in others :
                       \A k \in others : k <= e => registers[k] # "MSR_FFFF_FFFF"}
        msr_calls == IF others # {} THEN 1 ELSE 0
        v1 == [v EXCEPT !.registers["Lstar"] =
                  Latest({e \in written : registers[e] = "MSR_IA32_LSTAR"},
                         values, @)]
    IN  IF ok < msr_calls THEN Outcome(v, "HostError")
        ELSE IF efers = {} THEN Outcome(v1, "Ok")
        ELSE IF ok < msr_calls + 2 THEN Outcome(v1, "HostError")
        ELSE Outcome([v1 EXCEPT !.registers["Efer"] = Latest(efers, values, @)],
                     "Ok")

\* WHP set_msrs: one WHvSetVirtualProcessorRegisters for the identifiers WHP
\* has a register name for
windows_set_msrs(v, registers, values, ok) ==
    IF ok < 1 THEN Outcome(v, "HostError")
    ELSE Outcome([v EXCEPT !.registers =
                     [r \in DOMAIN v.registers |->
                         Latest({e \in Kept(registers, {"MSR_FFFF_FFFF"}) :
                                    HostRegister(registers[e]) = r},
                                values, v.registers[r])]], "Ok")

\* HVF set_msrs, entry by entry.  EFER: VmEntryControls is read, GUEST_IA32E
\* and EFER_LMA are set if the value has EFER_LME, VmEntryControls and then
\* GuestEfer are written.  Any other entry: hv_vcpu_write_msr, which the host
\* rejects for an identifier it does not know.
RECURSIVE macos_set_msrs(_, _, _, _)
macos_set_msrs(v, registers, values, ok) ==
    IF registers = <<>> THEN Outcome(v, "Ok")
    ELSE IF Head(registers) = "MSR_IA32_EFER"
    THEN LET lme == HasLme(Head(values))
             value == IF lme THEN OrLma(Head(values)) ELSE Head(values)
             flags == IF lme
                      THEN v.controls.VmEntryControls \cup {"GUEST_IA32E"}
                      ELSE v.controls.VmEntryControls
             v1 == [v EXCEPT !.controls.VmEntryControls = flags]
             v2 == [v1 EXCEPT !.registers["Efer"] = value]
         IN  IF ok < 2 THEN Outcome(v, "HostError")
             ELSE IF ok < 3 THEN Outcome(v1, "HostError")
             ELSE macos_set_msrs(v2, Tail(registers), Tail(values), ok - 3)
    ELSE IF Head(registers) = "MSR_FFFF_FFFF" \/ ok < 1
    THEN Outcome(v, "HostError")
    ELSE macos_set_msrs([v EXCEPT !.registers[HostRegister(Head(registers))] =
                            Head(values)],
                        Tail(registers), Tail(values), ok - 1)

\* bhyve set_msrs: one vm_set_register for each EFER entry, nothing for the
\* others
freebsd_set_msrs(v, registers, values, ok) ==
    Outcome([v EXCEPT !.registers["Efer"] =
                Latest(KeptApplied(registers, Msr \ {"MSR_IA32_EFER"},
                                   "MSR_IA32_EFER", ok), values, @)],
            Result(ok, Cardinality(Entries(registers, "MSR_IA32_EFER"))))

set_msrs(v, registers, values, ok) ==
    CASE backend = "kvm"   -> linux_set_msrs(v, registers, values, ok)
      [] backend = "whp"   -> windows_set_msrs(v, registers, values, ok)
      [] backend = "hvf"   -> macos_set_msrs(v, registers, values, ok)
      [] backend = "bhyve" -> freebsd_set_msrs(v, registers, values, ok)

\* The number of host calls set_msrs makes for a list of one register.
set_msrs_calls(register) ==
    CASE backend = "kvm"   -> IF register = "MSR_IA32_EFER" THEN 2 ELSE 1
      [] backend = "whp"   -> 1
      [] backend = "hvf"   -> IF register = "MSR_IA32_EFER" THEN 3 ELSE 1
      [] backend = "bhyve" -> IF register = "MSR_IA32_EFER" THEN 1 ELSE 0

\* The values set_msrs is called with: 0, SCE, LME, LMA and LME | LMA.
MsrValues == {0, 1, EFER_LME, EFER_LMA, 1280}

SetMsrs ==
    \E register \in Msr, value \in MsrValues :
      \E ok \in 0 .. set_msrs_calls(register) :
        /\ vcpu.created
        /\ LET done == set_msrs(vcpu, <<register>>, <<value>>, ok)
           IN  VcpuFinish([values |-> <<value>>]
                              @@ VcpuCall("set_msrs", <<register>>, done.ret, <<>>),
                          done.vcpu)

\* A Vcpu is created, and model-specific registers and control registers are
\* set and read.
NextMsr ==
    \/ CreateVcpu
    \/ SetMsrs
    \/ GetMsrs
    \/ SetControlRegisters
    \/ GetControlRegisters

SpecMsr == Init /\ [][NextMsr]_vars


\* The value the host holds for a requested identifier, 0 for an identifier
\* the backend cannot represent.
RequestedValue(register) ==
    IF register \in {"Cr1", "MSR_FFFF_FFFF"} THEN 0
    ELSE IF register \in Msr THEN vcpu.registers[HostRegister(register)]
    ELSE vcpu.registers[register]

\* C21: whatever the request list (repeated entries and unrepresentable
\* identifiers included), get_msrs on KVM and get_control_registers and
\* get_msrs on WHP return as many values as were requested, the i-th being
\* the value of the i-th requested register: EFER (KVM) and 0 for unknown
\* identifiers (WHP) at the positions they were requested at.  What KVM
\* returns for an unknown identifier itself is left open.
C21_ValuesInRequestOrder ==
    (/\ last.ret = "Ok"
     /\ \/ backend = "kvm" /\ last.op = "get_msrs"
        \/ backend = "whp" /\ last.op \in {"get_msrs", "get_control_registers"})
    => /\ Len(last.out) = Len(last.registers)
       /\ \A i \in 1 .. Len(last.registers) :
              (backend = "kvm" /\ last.registers[i] = "MSR_FFFF_FFFF")
              \/ last.out[i] = RequestedValue(last.registers[i])


\* C27: on HVF, whatever set_msrs writes of EFER were made since the virtual
\* CPU was created and reset, GUEST_IA32E is set in VmEntryControls if and
\* only if the EFER the VMCS holds has LME, and that EFER has LMA if and only
\* if it has LME.
C27_LongModeBitsAgree ==
    (backend = "hvf" /\ vcpu.created) =>
        /\ "GUEST_IA32E" \in vcpu.controls.VmEntryControls
               <=> HasLme(vcpu.registers["Efer"])
        /\ HasLma(vcpu.registers["Efer"]) <=> HasLme(vcpu.registers["Efer"])


(***************************************************************************)
(* Builders, partitions and mappings: the objects from                      *)
(* Hypervisor::build_vm to the last drop.  `life` counts the objects alive *)
(* and the host's calls: vms clones of the Vm, vcpus Vcpus, a VmBuilder    *)
(* (builder), the host's VM (host_vm), the calls that destroy it           *)
(* (destroyed), the Vcpus made (vcpu_created) and given back to the host   *)
(* (vcpu_deleted), the Mapping object (mapping), the calls of              *)
(* unmap_physical_memory made by a Mapping's drop (unmaps), and the step   *)
(* made last (step).                                                       *)
(***************************************************************************)

\* The largest number of Vcpus made of one Vm.
MaxVcpus == 2

\* No Mapping object has been made yet.
NoMapping == [kind |-> "NoObject", vm |-> FALSE, guest_address |-> 0]

\* Before Hypervisor::build_vm.
NoBuilder ==
    [vms |-> 0, host_vm |-> "none", builder |-> FALSE, vcpus |-> 0,
     destroyed |-> 0, vcpu_created |-> 0, vcpu_deleted |-> 0,
     mapping |-> NoMapping, unmaps |-> 0, step |-> "new"]

InitBuild ==
    /\ backend \in Backends
    /\ segments = <<>>
    /\ physical_ranges = {}
    /\ available_slots = <<>>
    /\ peak = 0
    /\ unmapped = {}
    /\ calls = 0
    /\ last = Call("new", 0, <<>>, "Ok", NoRange, 0, <<>>)
    /\ vcpu = NoVcpu
    /\ guest = NotRunning
    /\ life = NoBuilder
    /\ host = <<>>
    /\ page_allocator = PageAllocatorNew
    /\ pc = [t \in Threads |-> Idle]

\* The number of holders of the object that keeps the host's VM: on WHP the
\* strong count of the Arc<PartitionHandle>, held by the VmBuilder or the
\* platform's Vm and by every Vcpu; on KVM the open file descriptors of the
\* VM, the VmFd of the VmBuilder or Vm and the VcpuFd of every Vcpu.
handle_holders_vm_only(builder, vms, vcpus) ==
    IF builder \/ vms > 0 THEN 1 ELSE 0

handle_holders(builder, vms, vcpus) ==
    (IF builder \/ vms > 0 THEN 1 ELSE 0) + vcpus

\* What a drop that leaves the record l of objects does to the host's VM on
\* WHP and KVM: with the last holder gone, impl Drop for PartitionHandle
\* calls WHvDeletePartition (the kernel frees the VM).
drop_handle(l) ==
    IF l.host_vm = "created" /\ handle_holders(l.builder, l.vms, l.vcpus) = 0
    THEN [l EXCEPT !.host_vm = "destroyed", !.destroyed = @ + 1]
    ELSE l

\* impl Drop for the platform's Vm on HVF and bhyve: hv_vm_destroy,
\* vm_destroy, whose result is ignored.
destroy_vm(l, accept) ==
    [l EXCEPT !.host_vm = drop_vm(l.vcpus > 0, accept), !.destroyed = @ + 1]

\* Hypervisor::build_vm: WHvCreatePartition on WHP, Kvm::create_vm on KVM
\* and hv_vm_create on HVF make the host's VM (answer: accept); bhyve makes
\* nothing yet.
build_vm(l, accept) ==
    IF backend = "bhyve"
    THEN [l EXCEPT !.builder = TRUE, !.step = "build_vm"]
    ELSE IF accept
    THEN [l EXCEPT !.builder = TRUE, !.host_vm = "created", !.step = "build_vm"]
    ELSE [l EXCEPT !.step = "build_vm_err"]

\* VmBuilder::with_vcpu_count: WHvSetPartitionProperty on WHP, and with its
\* error the builder, taken by value, is dropped; nothing on the others.
with_vcpu_count(l, accept) ==
    IF backend = "whp" /\ ~accept
    THEN [drop_handle([l EXCEPT !.builder = FALSE]) EXCEPT !.step = "build_err"]
    ELSE [l EXCEPT !.step = "with_vcpu_count"]

\* VmBuilder::build.  WHP: WHvSetupPartition, and with its error the builder
\* is dropped.  KVM: set_tss_address, the same.  HVF: the Vm is made, no host
\* call.  bhyve: vm_create (accept) makes the host's VM, then the device file
\* is opened (open_ok); the error of the open returns with the VM made.
build(l, accept, open_ok) ==
    CASE backend \in {"whp", "kvm"} ->
             IF accept
             THEN [l EXCEPT !.builder = FALSE, !.vms = 1, !.step = "build"]
             ELSE [drop_handle([l EXCEPT !.builder = FALSE]) EXCEPT !.step = "build_err"]
      [] backend = "hvf" ->
             [l EXCEPT !.builder = FALSE, !.vms = 1, !.step = "build"]
      [] backend = "bhyve" ->
             IF ~accept
             THEN [l EXCEPT !.builder = FALSE, !.step = "build_err"]
             ELSE IF ~open_ok
             THEN [l EXCEPT !.builder = FALSE, !.host_vm = "created",
                            !.step = "build_err"]
             ELSE [l EXCEPT !.builder = FALSE, !.host_vm = "created", !.vms = 1,
                            !.step = "build"]

\* A VmBuilder is dropped without being built: its fields are dropped, the
\* PartitionHandle on WHP and the VmFd on KVM; the builders of HVF and bhyve
\* are unit structs.
drop_builder(l) ==
    IF backend \in {"whp", "kvm"}
    THEN [drop_handle([l EXCEPT !.builder = FALSE]) EXCEPT !.step = "drop_builder"]
    ELSE [l EXCEPT !.builder = FALSE, !.step = "drop_builder"]

\* The changes of `life` leave the rest of the state alone.
OnlyLife ==
    UNCHANGED <<backend, segments, physical_ranges, available_slots, peak,
                unmapped, calls, last, vcpu, guest, host, page_allocator, pc>>

BuildVm ==
    \E accept \in BOOLEAN :
        /\ life.step = "new"
        /\ life' = build_vm(life, accept)
        /\ OnlyLife

WithVcpuCount ==
    \E accept \in BOOLEAN :
        /\ life.builder
        /\ life.step = "build_vm"
        /\ life' = with_vcpu_count(life, accept)
        /\ OnlyLife

Build ==
    \E accept \in BOOLEAN, open_ok \in BOOLEAN :
        /\ life.builder
        /\ life' = build(life, accept, open_ok)
        /\ OnlyLife

DropBuilder ==
    /\ life.builder
    /\ life' = drop_builder(life)
    /\ OnlyLife

\* #[derive(Clone)] for Vm
CloneBuiltVm ==
    /\ life.vms > 0
    /\ life.vms < MaxVms
    /\ life' = [life EXCEPT !.vms = @ + 1, !.step = "clone"]
    /\ OnlyLife

\* A clone of the Vm is dropped; with the last one, the platform's Vm.
DropBuiltVm ==
    \E accept \in BOOLEAN :
        /\ life.vms > 0
        /\ life' =
               LET l == [life EXCEPT !.vms = @ - 1, !.step = "drop_vm"]
               IN  IF l.vms > 0 THEN l
                   ELSE IF backend \in {"hvf", "bhyve"} THEN destroy_vm(l, accept)
                   ELSE drop_handle(l)
        /\ OnlyLife

\* Vm::create_vcpu: WHvCreateVirtualProcessor, VmFd::create_vcpu,
\* hv_vcpu_create (answer: accept); bhyve clones the file.
CreateBuiltVcpu ==
    \E accept \in BOOLEAN :
        /\ life.vms > 0
        /\ life.vcpu_created < MaxVcpus
        /\ life' = IF accept
                   THEN [life EXCEPT !.vcpus = @ + 1, !.vcpu_created = @ + 1,
                                     !.step = "create_vcpu"]
                   ELSE [life EXCEPT !.step = "create_vcpu_err"]
        /\ OnlyLife

\* A Vcpu is dropped: impl Drop for Vcpu gives it back to the host
\* (WHvDeleteVirtualProcessor, hv_vcpu_destroy, the close of the VcpuFd),
\* then its fields are dropped, the Arc<PartitionHandle> on WHP.
DropBuiltVcpu ==
    /\ life.vcpus > 0
    /\ life' =
           LET l == [life EXCEPT !.vcpus = @ - 1, !.vcpu_deleted = @ + 1,
                                 !.step = "drop_vcpu"]
           IN  IF backend \in {"whp", "kvm"} THEN drop_handle(l) ELSE l
    /\ OnlyLife

\* The Mapping types of src/mmap.rs, and the type each make_* turns a
\* Mapping into.
MappingKinds == {"MmapNone", "Mmap", "MmapMut"}

MakeTarget ==
    [make_none |-> "MmapNone", make_read_only |-> "Mmap", make_exec |-> "Mmap",
     make_exec_no_flush |-> "Mmap", make_mut |-> "MmapMut",
     make_exec_mut |-> "MmapMut"]

\* The platform's allocate_physical_memory of bhyve, the only place that
\* makes a Mapping: vm_map_memory (accept), the host mapping (mmap_ok), and
\* MmapMut { vm: None, inner: Some(inner), guest_address }.
freebsd_mapping(l, guest_address, mmap_ok, accept) ==
    IF accept /\ mmap_ok
    THEN [l EXCEPT !.mapping = [kind |-> "MmapMut", vm |-> FALSE,
                                guest_address |-> guest_address],
                   !.step = "allocate"]
    ELSE [l EXCEPT !.step = "allocate_err"]

\* impl Drop for a Mapping m: unmap_physical_memory(guest_address) is called
\* if `vm` is Some, then the fields are dropped, the host's region with them.
\* The number of calls of unmap_physical_memory it makes:
mapping_drop_unmaps(m) == IF m.vm THEN 1 ELSE 0

\* make_*(self) of Mapping m: `inner` and `vm` are taken out of self; the
\* new Mapping, of the target type if the protection was changed (ok) and of
\* the same type if not, gets both, and self is dropped with vm None.
make(m, method, ok) ==
    [kind |-> IF ok THEN MakeTarget[method] ELSE m.kind,
     vm |-> m.vm, guest_address |-> m.guest_address]

\* The calls of unmap_physical_memory that make_* makes through the drop of
\* self, whose vm is None by then.
make_unmaps(m) == mapping_drop_unmaps([m EXCEPT !.vm = FALSE])

AllocateMapping ==
    \E guest_address \in Addr, mmap_ok \in BOOLEAN, accept \in BOOLEAN :
        /\ backend = "bhyve"
        /\ life.vms > 0
        /\ life.mapping.kind = "NoObject"
        /\ life' = freebsd_mapping(life, guest_address, mmap_ok, accept)
        /\ OnlyLife

MakeMapping ==
    \E method \in DOMAIN MakeTarget, ok \in BOOLEAN :
        /\ life.mapping.kind \in MappingKinds
        /\ life' = [life EXCEPT !.mapping = make(@, method, ok),
                                !.unmaps = @ + make_unmaps(life.mapping),
                                !.step = method]
        /\ OnlyLife

DropMapping ==
    /\ life.mapping.kind \in MappingKinds
    /\ life' = [life EXCEPT !.mapping.kind = "released",
                            !.unmaps = @ + mapping_drop_unmaps(life.mapping),
                            !.step = "drop_mapping"]
    /\ OnlyLife

NextBuild ==
    \/ BuildVm
    \/ WithVcpuCount
    \/ Build
    \/ DropBuilder
    \/ CloneBuiltVm
    \/ DropBuiltVm
    \/ CreateBuiltVcpu
    \/ DropBuiltVcpu
    \/ AllocateMapping
    \/ MakeMapping
    \/ DropMapping

SpecBuild == InitBuild /\ [][NextBuild]_vars

\* C23: when a Mapping is released, its guest range has been unmapped from
\* the Vm exactly once over the whole chain of make_* transitions that led
\* to it: in every state where the Mapping has been released, one call of
\* unmap_physical_memory has been made for it.
C23_UnmappedOnceAtRelease ==
    life.mapping.kind = "released" => life.unmaps = 1

\* C24: on WHP, WHvDeletePartition is called at most once, and only when the
\* VmBuilder, every clone of the Vm and every Vcpu are gone and
\* WHvDeleteVirtualProcessor has been called for every Vcpu made; and once
\* they are all gone it has been called.
C24_PartitionDeletedLast ==
    (backend = "whp" /\ life.host_vm # "none") =>
        /\ life.destroyed <= 1
        /\ life.host_vm = "destroyed" <=> life.destroyed = 1
        /\ life.destroyed = 1 <=>
               /\ ~life.builder
               /\ life.vms = 0
               /\ life.vcpus = 0
               /\ life.vcpu_deleted = life.vcpu_created

\* C24 witness: on WHP the Vm was dropped while Vcpus were alive, and the
\* partition was deleted at the drop of the last of two Vcpus.
C24_VcpuDroppedLast ==
    /\ backend = "whp"
    /\ life.step = "drop_vcpu"
    /\ life.vcpu_deleted = 2
    /\ life.destroyed = 1

\* C29: no host VM is left behind on a failure path: after VmBuilder::build
\* has returned an error, or a VmBuilder has been dropped without being
\* built, the host has no VM of this builder.
C29_NoVmLeftOnFailure ==
    life.step \in {"build_err", "drop_builder"} => life.host_vm # "created"


(***************************************************************************)
(* The page allocator: src/vm.rs, PageAllocator.  Any sequence of at most  *)
(* MaxPageCalls calls of add_range, alloc_page and free_page on it.        *)
(***************************************************************************)

MaxPageCalls == 5

\* The box of a PageInfo is alive: it is the value of a key of `segments`.
\* A box that add_range replaced there has been freed, and the PageInfos of
\* it that the free list still links are dangling.
BoxAlive(allocator, box) ==
    \E start \in DOMAIN allocator.segments : allocator.segments[start] = box

\* The guest pages of the ranges passed to add_range so far.
AddedPages(allocator) ==
    {a \in Addr : get_key_value(allocator.physical_ranges, a).found}

\* PageAllocator::alloc_page: None if the free list is empty; else its front
\* is taken off, and the guest address is the base that page_info_ranges has
\* for the PageInfo's box plus 4096 times its index.  The front PageInfo of a
\* freed box is read after its memory was given back: the memory is still as
\* it was (intact), or the process is stopped.
alloc_page(allocator, intact) ==
    IF allocator.free_list = <<>>
    THEN [ret |-> "None", gpa |-> 0, allocator |-> allocator]
    ELSE LET page_info == Head(allocator.free_list)
         IN  IF ~BoxAlive(allocator, page_info.box) /\ ~intact
             THEN [ret |-> "abort", gpa |-> 0, allocator |-> allocator]
             ELSE [ret |-> "Some",
                   gpa |-> allocator.page_info_ranges[page_info.box].base
                               + page_info.index,
                   allocator |-> [allocator EXCEPT !.free_list = Tail(@)]]

\* The PageInfo is linked in the free list.
Linked(allocator, page_info) ==
    \E i \in 1 .. Len(allocator.free_list) : allocator.free_list[i] = page_info

\* PageAllocator::free_page(phys_addr): the range of physical_ranges that
\* holds phys_addr and the segment at that range's start are looked up, each
\* with expect; the PageInfo at the page's index in the segment is pushed to
\* the front of the free list, which panics if it is linked already.  An
\* index past the end of the segment's box makes a reference outside of the
\* box: the process is stopped, or the reference is taken for a PageInfo
\* that is not linked (intact).
free_page(allocator, phys_addr, intact) ==
    LET kv == get_key_value(allocator.physical_ranges, phys_addr)
        index == phys_addr - kv.range.start
        box == allocator.segments[kv.range.start]
        page_info == [box |-> box, index |-> index]
    IN  IF ~kv.found \/ kv.range.start \notin DOMAIN allocator.segments
        THEN [ret |-> "panic", allocator |-> allocator]
        ELSE IF index >= allocator.page_info_ranges[box].len /\ ~intact
        THEN [ret |-> "abort", allocator |-> allocator]
        ELSE IF Linked(allocator, page_info)
        THEN [ret |-> "panic", allocator |-> allocator]
        ELSE [ret |-> "Ok",
              allocator |-> [allocator EXCEPT !.free_list = <<page_info>> \o @]]

\* The record of a call on the page allocator: the call, the address it was
\* given or returned, what it returned, and the guest pages that alloc_page
\* has handed out and free_page has not taken back, before and after it.
PageCall(op, gpa, ret, before, held) ==
    [op |-> op, gpa |-> gpa, ret |-> ret, before |-> before, held |-> held]

\* The guest pages handed out and not taken back.
Held == IF last.op = "new" THEN {} ELSE last.held

PageFinish(call) ==
    /\ calls < MaxPageCalls
    /\ calls' = calls + 1
    /\ last' = call
    /\ UNCHANGED <<backend, segments, physical_ranges, available_slots, peak,
                   unmapped, vcpu, guest, life, host, pc>>

PageAddRange ==
    \E start \in Addr, size \in Sizes :
        /\ start + size <= MaxAddr
        /\ page_allocator' = add_range(page_allocator, start, start + size)
        /\ PageFinish(PageCall("add_range", start, "Ok", Held, Held))

AllocPage ==
    \E intact \in BOOLEAN :
        LET r == alloc_page(page_allocator, intact)
        IN  /\ page_allocator' = r.allocator
            /\ PageFinish(PageCall("alloc_page", r.gpa, r.ret, Held,
                                   IF r.ret = "Some" THEN Held \cup {r.gpa}
                                   ELSE Held))

FreePage ==
    \E phys_addr \in Addr, intact \in BOOLEAN :
        LET r == free_page(page_allocator, phys_addr, intact)
        IN  /\ page_allocator' = r.allocator
            /\ PageFinish(PageCall("free_page", phys_addr, r.ret, Held,
                                   IF r.ret = "Ok" THEN Held \ {phys_addr}
                                   ELSE Held))

NextPages ==
    \/ PageAddRange
    \/ AllocPage
    \/ FreePage

SpecPages == Init /\ [][NextPages]_vars

\* C25: alloc_page returns only guest addresses inside a range passed to
\* add_range, never an address that it handed out and that free_page has not
\* taken back since, and it returns None exactly when every page of every
\* added range is handed out.
C25_AllocPageHandsOutFreePages ==
    last.op = "alloc_page" =>
        /\ last.ret = "Some" =>
               /\ last.gpa \in AddedPages(page_allocator)
               /\ last.gpa \notin last.before
        /\ last.ret = "None" <=> AddedPages(page_allocator) \subseteq last.before


\* The guest pages that the PageInfos of the free list stand for.
FreePages(allocator) ==
    {allocator.page_info_ranges[allocator.free_list[i].box].base
         + allocator.free_list[i].index : i \in 1 .. Len(allocator.free_list)}

\* The guest pages of the ranges of a range table.
RangePages(pr) == {a \in Addr : get_key_value(pr, a).found}

\* C26: on the backends that keep a table of regions, after any sequence of
\* calls on the Vm the ranges of the page allocator are the ranges mapped in
\* the backend, the free list holds only pages of these, and alloc_page
\* would not return an address outside of them.
C26_AllocatorTracksRegions ==
    backend \in {"kvm", "whp", "hvf"} =>
        /\ {<<r.start, r.end>> : r \in page_allocator.physical_ranges}
               = {<<r.start, r.end>> : r \in physical_ranges}
        /\ FreePages(page_allocator) \subseteq RangePages(physical_ranges)
        /\ alloc_page(page_allocator, TRUE).ret = "Some" =>
               alloc_page(page_allocator, TRUE).gpa \in RangePages(physical_ranges)


\* Any sequence of at most MaxCalls calls of Vm::allocate_physical_memory and
\* Vm::unmap_physical_memory.
NextAllocateUnmap ==
    \/ AllocatePhysicalMemory
    \/ UnmapPhysicalMemory

SpecAllocateUnmap == Init /\ [][NextAllocateUnmap]_vars


(***************************************************************************)
(* Vcpu::run on bhyve: src/os_impl/freebsd/vcpu.rs.  The Vcpu keeps a copy *)
(* of the guest's RIP in its field rip and hands it to the host in vm_run. *)
(***************************************************************************)

\* The exit codes the host reports, and the bytes the guest went forward
\* before it stopped.
ExitCodes == {"VM_EXITCODE_HLT", "VM_EXITCODE_INOUT"}

Advances == {0, 1}

\* Vcpu::run(&self): vm_run is given self.rip, the address at which the host
\* makes the guest go on; the guest stops `advance` bytes further and the
\* host reports the exit code.  self.rip is not written.  accept: the host
\* accepts vm_run.
freebsd_run(v, exitcode, advance, accept) ==
    IF ~accept
    THEN [vcpu |-> v, ret |-> "HostError", out |-> NoExitReason]
    ELSE [vcpu |-> [v EXCEPT !.registers["Rip"] = v.rip + advance],
          ret |-> "Ok",
          out |-> IF exitcode = "VM_EXITCODE_HLT" THEN Halted ELSE Unknown]

\* A call of run on bhyve; the record of the call keeps the RIP handed to the
\* host (rip) and the guest's RIP at the time of the call (guest_rip).
FreebsdRun ==
    \E exitcode \in ExitCodes, advance \in Advances, accept \in BOOLEAN :
        /\ backend = "bhyve"
        /\ vcpu.created
        /\ LET done == freebsd_run(vcpu, exitcode, advance, accept)
           IN  VcpuFinish([rip |-> vcpu.rip, guest_rip |-> vcpu.registers["Rip"]]
                              @@ VcpuCall("run", <<>>, done.ret, done.out),
                          done.vcpu)

NextBhyve ==
    \/ CreateVcpu
    \/ SetRegisters
    \/ FreebsdRun

SpecBhyve == Init /\ [][NextBhyve]_vars

\* C28: on bhyve the RIP handed to the host by a run is the guest's RIP at
\* that time, and the field rip of the Vcpu equals the guest's RIP register
\* after any sequence of set_registers calls and runs.
C28_CachedRipIsGuestRip ==
    backend = "bhyve" =>
        /\ last.op = "run" => last.rip = last.guest_rip
        /\ vcpu.created => vcpu.rip = vcpu.registers["Rip"]


(***************************************************************************)
(* Termination of Vcpu::run on HVF.  A turn of the loop is two steps: the  *)
(* host's, in which hv_vcpu_run comes back with the answers of the turn,   *)
(* and the library's, the rest of the loop body.  The counts of a call     *)
(* stop at MaxExits absorbed exits; the loop itself goes on.               *)
(***************************************************************************)

\* The exit reason that the host reports is VmxReason::Irq.
IsIrq(value) ==
    LET exit_reason == from_u32(And7fffffff(AsU32(value)))
    IN  exit_reason.some /\ exit_reason.reason = Irq

\* The caller calls run: the loop is entered and hv_vcpu_run is called.
EnterRun ==
    /\ backend = "hvf"
    /\ vcpu.created
    /\ ~guest.entered
    /\ calls < MaxVcpuCalls
    /\ guest' = [entered |-> TRUE, at |-> "hv_vcpu_run", exits |-> 0, irqs |-> 0]
    /\ UNCHANGED <<backend, segments, physical_ranges, available_slots, peak,
                   unmapped, calls, last, vcpu, life, host, page_allocator, pc>>

\* hv_vcpu_run comes back: the host has chosen the exit reason, the
\* addresses and how many of the turn's host calls it accepts.  exits counts
\* the calls of hv_vcpu_run of this call of run.
HvVcpuRun ==
    \E value \in ExitReasonValues, phys_addr \in GuestAddresses,
       virt_addr \in GuestAddresses, ok \in 0 .. 4 :
        /\ guest.entered
        /\ guest.at = "hv_vcpu_run"
        /\ guest' = [entered |-> TRUE, at |-> "body",
                     exits |-> Min(guest.exits + 1, MaxExits + 1),
                     irqs |-> guest.irqs, value |-> value,
                     phys_addr |-> phys_addr, virt_addr |-> virt_addr, ok |-> ok]
        /\ UNCHANGED <<backend, segments, physical_ranges, available_slots, peak,
                       unmapped, calls, last, vcpu, life, host, page_allocator, pc>>

\* The rest of the loop body: run returns, or it goes round again and calls
\* hv_vcpu_run.  irqs counts the exits absorbed.
LoopBody ==
    /\ guest.entered
    /\ guest.at = "body"
    /\ LET done == macos_run(vcpu, guest.value, guest.phys_addr, guest.virt_addr,
                             guest.ok)
       IN  IF done.ret = "Continue"
           THEN /\ guest' = [entered |-> TRUE, at |-> "hv_vcpu_run",
                             exits |-> guest.exits,
                             irqs |-> Min(guest.irqs + 1, MaxExits)]
                /\ UNCHANGED <<backend, segments, physical_ranges, available_slots,
                               peak, unmapped, calls, last, vcpu, life, host,
                               page_allocator, pc>>
           ELSE /\ guest' = [guest EXCEPT !.entered = FALSE, !.at = "caller"]
                /\ calls' = calls + 1
                /\ last' = VcpuCall("run", <<>>, done.ret, done.out)
                /\ vcpu' = done.vcpu
                /\ UNCHANGED <<backend, segments, physical_ranges, available_slots,
                               peak, unmapped, life, host, page_allocator, pc>>

NextRunFair ==
    \/ CreateVcpu
    \/ EnterRun
    \/ HvVcpuRun
    \/ LoopBody

\* The host reports an exit reason other than Irq, or rejects one of the
\* first two host calls of the turn.
HostReportsOther ==
    /\ HvVcpuRun
    /\ guest'.ok < 2 \/ ~IsIrq(guest'.value)

\* The thread that called run is scheduled, so that the loop body is run
\* once hv_vcpu_run has come back; and the host, which makes hv_vcpu_run
\* come back, does not report Irq for ever.
SpecRunFair ==
    /\ Init
    /\ [][NextRunFair]_vars
    /\ WF_vars(LoopBody)
    /\ SF_vars(HostReportsOther)

\* C30: on HVF a call of run returns, provided the host does not report Irq
\* for ever; and when it has returned, hv_vcpu_run has been called once for
\* each absorbed Irq exit and once more for the turn that returned.
C30_RunTerminates ==
    /\ guest.entered ~> ~guest.entered
    /\ [](~guest.entered /\ last.op = "run" => guest.exits = guest.irqs + 1)

\* C30 witness: run has returned after it absorbed two Irq exits, with
\* three calls of hv_vcpu_run.
C30_ReturnedAfterTwoIrqs ==
    /\ ~guest.entered
    /\ last.op = "run"
    /\ guest.irqs = 2
    /\ guest.exits = 3

=============================================================================
